---- MODULE Spec2Model ----
(***************************************************************************)
(* Model of the smart compression engine of image-resizer-advanced         *)
(* (src/src/compression.rs): image analysis, algorithm selection, the      *)
(* encoder adapters and the target-size searches of SmartCompressor.       *)
(*                                                                         *)
(* An Option<T> is a sequence: <<>> is None, <<x>> is Some(x).             *)
(* A byte buffer is abstracted to the encode call that produced it and its *)
(* length: [enc, q, len]; the empty Vec has length 0.                      *)
(* Qualities handed to an encoder are kept in units of 1/QScale so that    *)
(* the f32 midpoints of the WebP search are exact integers.                *)
(***************************************************************************)
EXTENDS Integers, Sequences, FiniteSets, TLC

VARIABLES
    image,        \* the DynamicImage handed to compress
    options,      \* the CompressionOptions handed to compress
    monotone,     \* whether the encoder's output size is non-decreasing in quality
    pc,           \* the function the call is executing
    analysis,     \* compress: let analysis
    algorithm,    \* compress: let algorithm
    quality,      \* the adapter's local `quality`
    low, high,    \* the bracket of the running target-size search
    best_result,  \* the best buffer of the running search
    filter,       \* compress_optipng: index of the next filter to try
    encoded,      \* the encode calls made so far: quality and output length
    result,       \* the Result returned by compress
    seed,         \* the bracket the search of this call started from
    tried,        \* the encodes of the running loop, in order
    seeds,        \* the (supplied quality, starting bracket) pairs of all calls
    sel,          \* results of repeated selector calls on one record
    sample,       \* a call of count_unique_colors: its budget and what it did
    analyses,     \* the ImageAnalysis records of repeated analyze_image calls
    compressor,   \* the SmartCompressor shared by the workers
    workers,      \* the compress call of each worker
    batch,        \* a batch run: the collected paths, the loop and its results
    simple,       \* a call of simple::process_single_image
    raw,          \* a call of estimate_raw_size
    ui            \* the ImageResizer application and its running commands

\* the variables outside a single call of compress
others == <<sample, analyses, compressor, workers, batch, simple, raw, ui>>

vars == <<image, options, monotone, pc, analysis, algorithm, quality,
          low, high, best_result, filter, encoded, result, seed, tried, seeds, sel,
          sample, analyses, compressor, workers, batch, simple, raw, ui>>

(***************************************************************************)
(* Bounds of the model                                                     *)
(***************************************************************************)
\* encoded lengths are drawn from 1..MaxLen (every encoder writes a header)
MaxLen == 2
\* target sizes are drawn from 1..MaxTarget
MaxTarget == 2
\* colour counts of the selector's input records range over 0..MaxColorCount
MaxColorCount == 300

None == <<>>
Some(x) == <<x>>

Max2(a, b) == IF a >= b THEN a ELSE b

(***************************************************************************)
(* CompressionAlgorithm                                                    *)
(***************************************************************************)
CompressionAlgorithm ==
    {"Auto", "Simple", "StandardJpeg", "MozJpeg", "StandardPng", "OptiPng",
     "OxiPng", "PngQuant", "WebPLossy", "WebPLossless", "Avif"}

\* CompressionAlgorithm::supports_quality
supports_quality(alg) == alg \in {"StandardJpeg", "MozJpeg", "WebPLossy", "Avif"}

\* CompressionAlgorithm::recommended_quality
recommended_quality(alg) ==
    IF alg \in {"StandardJpeg", "MozJpeg"} THEN 85
    ELSE IF alg = "WebPLossy" THEN 90
    ELSE IF alg = "Avif" THEN 80
    ELSE 100

(***************************************************************************)
(* Images.  A DynamicImage is a layout, its dimensions and its pixels; the *)
(* pixels are given by a block ramp: the colour of (x, y) is               *)
(* ((x / bx) * sx, (y / by) * sy, 0), and `hole` makes the pixel (0, 0) of *)
(* an RGBA image fully transparent; `factor` is the posterization step the  *)
(* channels were rounded down to (1 for an image as loaded).               *)
(***************************************************************************)
Img(layout, w, h, bx, by, sx, sy, hole) ==
    [layout |-> layout, w |-> w, h |-> h, bx |-> bx, by |-> by,
     sx |-> sx, sy |-> sy, hole |-> hole, factor |-> 1]

Images ==
    { Img("Rgba8", 100, 100, 5, 7, 12, 1, TRUE),    \* transparent corner, 300 colours
      Img("Rgb8",  50,  50, 25, 50, 200, 0, FALSE), \* flat, two colours, opaque
      Img("Rgb8",  23,  50, 1, 1, 11, 1, FALSE),    \* opaque ramp, 1150 colours, steep
      Img("Rgb8",  40,  30, 1, 1, 1, 1, FALSE),     \* opaque ramp, 1200 colours, smooth
      Img("Rgba8", 8,   8, 4, 4, 100, 100, TRUE) }  \* transparent corner, four colours

\* image.dimensions()
dimensions(img) == <<img.w, img.h>>

\* image.to_rgba8(): the pixel (x, y) as <<r, g, b, a>>
to_rgba8(img, x, y) ==
    << ((((x \div img.bx) * img.sx) % 256) \div img.factor) * img.factor,
       ((((y \div img.by) * img.sy) % 256) \div img.factor) * img.factor,
       0,
       IF img.layout = "Rgba8" /\ img.hole /\ x = 0 /\ y = 0 THEN 0 ELSE 255 >>

\* the i-th pixel of image.pixels(), row-major
PixelAt(img, i) == to_rgba8(img, i % img.w, i \div img.w)

NumPixels(img) == img.w * img.h

(***************************************************************************)
(* Image analysis                                                          *)
(***************************************************************************)
has_alpha_channel(img) ==
    \E i \in 0..(NumPixels(img) - 1) : PixelAt(img, i)[4] < 255

\* count_unique_colors breaking on `colors.len() > max_sample`
count_unique_colors_late_break(img, max_sample) ==
    LET n       == NumPixels(img)
        step    == Max2(n \div max_sample, 1)
        sampled == { <<PixelAt(img, i)[1], PixelAt(img, i)[2], PixelAt(img, i)[3]>> :
                        i \in { j \in 0..(n - 1) : j % step = 0 } }
        c       == Cardinality(sampled)
    IN  IF c > max_sample THEN max_sample + 1 ELSE c

\* The loop inserts the colour of every step-th pixel and stops as soon as
\* the set holds max_sample colours.
count_unique_colors(img, max_sample) ==
    LET n       == NumPixels(img)
        step    == Max2(n \div max_sample, 1)
        sampled == { <<PixelAt(img, i)[1], PixelAt(img, i)[2], PixelAt(img, i)[3]>> :
                        i \in { j \in 0..(n - 1) : j % step = 0 } }
        c       == Cardinality(sampled)
    IN  IF n = 0 THEN 0
        ELSE IF c >= max_sample THEN Max2(max_sample, 1) ELSE c

\* (dr*dr + dg*dg + db*db): the square of color_distance, an exact integer
color_distance_sq(c1, c2) ==
    (c1[1] - c2[1]) * (c1[1] - c2[1]) + (c1[2] - c2[2]) * (c1[2] - c2[2])
        + (c1[3] - c2[3]) * (c1[3] - c2[3])

\* color_distance(c1, c2) > 10.0: the f32 square root of an integer below
\* 2^24 is correctly rounded, so it exceeds 10.0 exactly when the sum of
\* squares exceeds 100.
color_distance_gt_10(c1, c2) == color_distance_sq(c1, c2) > 100

\* saturating_sub(1) on a u32
saturating_sub1(n) == IF n = 0 THEN 0 ELSE n - 1

\* the first component of analyze_complexity: has_gradients
analyze_complexity(img) ==
    LET grid == { p \in (0..(saturating_sub1(img.w) - 1)) \X (0..(saturating_sub1(img.h) - 1)) :
                      p[1] % 4 = 0 /\ p[2] % 4 = 0 }
        gradient_pixels ==
            Cardinality({ p \in grid :
                \/ color_distance_gt_10(to_rgba8(img, p[1], p[2]), to_rgba8(img, p[1] + 1, p[2]))
                \/ color_distance_gt_10(to_rgba8(img, p[1], p[2]), to_rgba8(img, p[1], p[2] + 1)) })
        sample_count == 2 * Cardinality(grid)
    IN  gradient_pixels > (sample_count \div 10)

\* ImageAnalysis_of with 100 for 1000 in is_photograph
ImageAnalysis_of_hundred(has_transparency, color_count, has_gradients) ==
    [has_transparency |-> has_transparency,
     color_count      |-> color_count,
     has_gradients    |-> has_gradients,
     is_photograph    |-> (color_count > 100 /\ has_gradients)]

\* the fields of ImageAnalysis that the engine reads, as analyze_image fills
\* them: is_photograph = color_count > 1000 && has_gradients
ImageAnalysis_of(has_transparency, color_count, has_gradients) ==
    [has_transparency |-> has_transparency,
     color_count      |-> color_count,
     has_gradients    |-> has_gradients,
     is_photograph    |-> (color_count > 1000 /\ has_gradients)]

analyze_image(img) ==
    ImageAnalysis_of(has_alpha_channel(img), count_unique_colors(img, 10000),
                     analyze_complexity(img))

\* select_best_algorithm with `_ => Auto` as its last arm
select_best_algorithm_auto_fallback(a) ==
    IF ~a.has_transparency /\ a.is_photograph THEN "MozJpeg"
    ELSE IF a.has_transparency /\ a.color_count > 256 THEN "WebPLossy"
    ELSE IF ~a.is_photograph /\ a.color_count <= 256 THEN "OxiPng"
    ELSE IF a.has_transparency THEN "WebPLossy"
    ELSE "Auto"

\* select_best_algorithm with the `(true, _, _)` arm moved above the
\* few-colours arm
select_best_algorithm_transparency_first(a) ==
    IF ~a.has_transparency /\ a.is_photograph THEN "MozJpeg"
    ELSE IF a.has_transparency /\ a.color_count > 256 THEN "WebPLossy"
    ELSE IF a.has_transparency THEN "WebPLossy"
    ELSE IF ~a.is_photograph /\ a.color_count <= 256 THEN "OxiPng"
    ELSE "WebPLossy"

\* the match on (has_transparency, is_photograph, color_count): the first
\* arm whose pattern and guard hold
select_best_algorithm(a) ==
    IF ~a.has_transparency /\ a.is_photograph THEN "MozJpeg"
    ELSE IF a.has_transparency /\ a.color_count > 256 THEN "WebPLossy"
    ELSE IF ~a.is_photograph /\ a.color_count <= 256 THEN "OxiPng"
    ELSE IF a.has_transparency THEN "WebPLossy"
    ELSE "WebPLossy"

\* the number of the arm of select_best_algorithm that matches, 1 to 5
matching_arm(a) ==
    IF ~a.has_transparency /\ a.is_photograph THEN 1
    ELSE IF a.has_transparency /\ a.color_count > 256 THEN 2
    ELSE IF ~a.is_photograph /\ a.color_count <= 256 THEN 3
    ELSE IF a.has_transparency THEN 4
    ELSE 5

(***************************************************************************)
(* CompressionOptions                                                      *)
(***************************************************************************)
\* the qualities a caller supplies (main.rs offers a slider over 10..=100)
QualityChoices == {10, 53, 100}

OptionsSet ==
    [algorithm : CompressionAlgorithm,
     quality : {None} \cup {Some(q) : q \in QualityChoices},
     target_size : {None} \cup {Some(t) : t \in 1..MaxTarget},
     preserve_metadata : {FALSE},
     optimize_for_web : {TRUE}]

\* Option::unwrap_or
unwrap_or(opt, default) == IF opt = None THEN default ELSE opt[1]

(***************************************************************************)
(* Numbers: u8 arithmetic and the f32 values the adapters compute          *)
(***************************************************************************)
U8(x) == x % 256

\* qualities given to an encoder are counted in 1/128: every f32 the WebP
\* search computes from the bracket [10.0, 95.0] is a multiple of 1/128
QScale == 2 ^ 7

\* `q as f32` for a u8 q
U8ToF32(q) == q * QScale

\* `x as u8` for a non-negative f32 x: truncates and saturates
F32ToU8(x) == IF x \div QScale > 255 THEN 255 ELSE x \div QScale

Pow2(n) == 2 ^ n

\* n / d rounded to the nearest integer, ties to even
RoundHalfEven(n, d) ==
    LET f == n \div d
        r == n % d
    IN  IF 2 * r < d THEN f
        ELSE IF 2 * r > d THEN f + 1
        ELSE IF f % 2 = 0 THEN f ELSE f + 1

\* the f32 nearest to n / d, as <<m, k>> with value m / 2^k and a 24-bit m
F32Quotient(n, d) ==
    LET k == CHOOSE e \in 0..30 :
                 /\ n <= 2147483647 \div Pow2(e)
                 /\ n * Pow2(e) >= d * Pow2(23)
                 /\ n * Pow2(e) < d * Pow2(24)
    IN  IF n = 0 THEN <<0, 0>> ELSE <<RoundHalfEven(n * Pow2(k), d), k>>

\* the f32 nearest to x * c for an f32 x = <<m, k>> and a small integer c
F32Times(x, c) ==
    LET p == x[1] * c
        s == CHOOSE e \in 0..7 :
                 /\ p \div Pow2(e) < Pow2(24)
                 /\ (e = 0 \/ p \div Pow2(e) >= Pow2(23))
    IN  <<RoundHalfEven(p, Pow2(s)), x[2] - s>>

\* `x as u8` for a non-negative f32 x = <<m, k>>
F32PairToU8(x) ==
    LET t == IF x[2] >= 0 THEN x[1] \div Pow2(x[2]) ELSE 256
    IN  IF t > 255 THEN 255 ELSE t

\* the f32 nearest to x * y for f32s x and y with 24-bit mantissas; the
\* 48-bit product is formed from 12-bit halves as hi * 2^24 + lo
F32Mul(x, y) ==
    LET a1    == x[1] \div Pow2(12)
        b1    == x[1] % Pow2(12)
        a2    == y[1] \div Pow2(12)
        b2    == y[1] % Pow2(12)
        cross == a1 * b2 + a2 * b1
        t     == (cross % Pow2(12)) * Pow2(12) + b1 * b2
        hi    == a1 * a2 + cross \div Pow2(12) + t \div Pow2(24)
        lo    == t % Pow2(24)
        wide  == hi >= Pow2(23)
        q     == IF wide THEN hi ELSE 2 * hi + lo \div Pow2(23)
        r     == IF wide THEN lo ELSE lo % Pow2(23)
        half  == IF wide THEN Pow2(23) ELSE Pow2(22)
        m     == IF r > half \/ (r = half /\ q % 2 = 1) THEN q + 1 ELSE q
        k     == x[2] + y[2] - (IF wide THEN 24 ELSE 23)
    IN  IF m = Pow2(24) THEN <<Pow2(23), k - 1>> ELSE <<m, k>>

\* `x as u32` for a non-negative f32 x = <<m, k>> below 2^31
F32ToU32(x) == IF x[2] >= 0 THEN x[1] \div Pow2(x[2]) ELSE x[1] * Pow2(0 - x[2])

\* x > 0.5 for a positive f32 x = <<m, k>> with 0 <= k <= 29
F32GtHalf(x) == 2 * x[1] > Pow2(x[2])

\* compress_avif: (quality * 100.0) as u8, where
\* quality = options.quality.unwrap_or(80) as f32 / 100.0
avif_final_quality(q) == F32PairToU8(F32Times(F32Quotient(q, 100), 100))

(***************************************************************************)
(* Buffers, encoders and results                                           *)
(***************************************************************************)
\* Vec::new()
EmptyVec == [enc |-> "none", q |-> None, len |-> 0]

\* the output of one encode call: q is Some(quality given to the encoder),
\* or None when the call passes no quality
Buf(enc, q, len) == [enc |-> enc, q |-> q, len |-> len]

is_empty(buf) == buf.len = 0

\* The lengths an encode at quality qk (in 1/QScale) can have: an encoder is
\* a function of the image and the quality, so a quality seen before gives
\* the length it gave before; when `monotone`, lengths never decrease as the
\* quality grows.
EncodeLens(qk) ==
    { n \in 1..MaxLen :
        \A e \in encoded :
            /\ e.q = qk => e.len = n
            /\ monotone => /\ e.q <= qk => e.len <= n
                           /\ e.q >= qk => n <= e.len }

\* outcome 0 of a fallible encode call is Err
EncodeError == 0

Record(qk, n) == encoded \cup {[q |-> qk, len |-> n]}

\* estimate_raw_size
estimate_raw_size(img) ==
    LET bytes_per_pixel ==
            CASE img.layout = "Luma8"  -> 1
              [] img.layout = "LumaA8" -> 2
              [] img.layout = "Rgb8"   -> 3
              [] img.layout = "Rgba8"  -> 4
              [] OTHER                 -> 4
    IN  dimensions(img)[1] * dimensions(img)[2] * bytes_per_pixel

\* calculate_ratio: compressed.len() / original_size, kept as the pair
calculate_ratio(original, compressed) ==
    <<compressed.len, estimate_raw_size(original)>>

\* quantize_image(image, 256): factor = (256.0 / sqrt(256.0)) as u8 = 16
quantize_image(img) == [img EXCEPT !.layout = "Rgba8", !.factor = 16]

Ok(data, format, algorithm_used, final_quality, ratio) ==
    Some([ok |-> TRUE, data |-> data, format |-> format,
          algorithm_used |-> algorithm_used, final_quality |-> final_quality,
          compression_ratio |-> ratio, err |-> ""])

Err(msg) ==
    Some([ok |-> FALSE, data |-> EmptyVec, format |-> "", algorithm_used |-> "",
          final_quality |-> None, compression_ratio |-> <<0, 1>>, err |-> msg])

IsOk(r)  == r # None /\ r[1].ok
IsErr(r) == r # None /\ ~r[1].ok

(***************************************************************************)
(* The state before a call                                                 *)
(***************************************************************************)
Fresh ==
    /\ pc = "compress"
    /\ analysis = None
    /\ algorithm = ""
    /\ quality = 0
    /\ low = 0
    /\ high = 0
    /\ best_result = EmptyVec
    /\ filter = 0
    /\ encoded = {}
    /\ result = None
    /\ seed = None
    /\ tried = <<>>
    /\ sel = <<>>

\* pub struct SmartCompressor;
UnitStruct == <<>>

\* nothing else is running
Idle ==
    /\ sample = None
    /\ analyses = <<>>
    /\ compressor = UnitStruct
    /\ workers = <<>>
    /\ batch = None
    /\ simple = None
    /\ raw = None
    /\ ui = None

Init ==
    /\ image \in Images
    /\ options \in OptionsSet
    /\ monotone \in BOOLEAN
    /\ seeds = {}
    /\ Fresh
    /\ Idle

(***************************************************************************)
(* SmartCompressor::compress                                               *)
(***************************************************************************)
\* the arm of `match algorithm` that runs
Dispatch(alg) ==
    CASE alg = "Auto"         -> "unreachable"
      [] alg = "Simple"       -> "compress_standard_jpeg"
      [] alg = "StandardJpeg" -> "compress_standard_jpeg"
      [] alg = "MozJpeg"      -> "compress_mozjpeg"
      [] alg = "StandardPng"  -> "compress_standard_png"
      [] alg = "OptiPng"      -> "compress_optipng"
      [] alg = "OxiPng"       -> "compress_oxipng"
      [] alg = "PngQuant"     -> "compress_pngquant"
      [] alg = "WebPLossy"    -> "compress_webp_lossy"
      [] alg = "WebPLossless" -> "compress_webp_lossless"
      [] alg = "Avif"         -> "compress_avif"

\* Resolve running the selector whatever the caller asked for
Resolve_always_selects(requested, a) == select_best_algorithm(a)

\* let algorithm = match options.algorithm { Auto => select_best_algorithm(..), other => other }
Resolve(requested, a) ==
    IF requested = "Auto" THEN select_best_algorithm(a) ELSE requested

\* self.analyze_image(image) keeping the first analysis it makes in self and
\* returning it from then on
self_analyze_image_memoized(self, img) ==
    IF self = UnitStruct
    THEN <<analyze_image(img), Some(analyze_image(img))>>
    ELSE <<self[1], self>>

\* self.analyze_image(image) on the shared borrow &self: the analysis it
\* returns, and self after the call
self_analyze_image(self, img) == <<analyze_image(img), self>>

compress ==
    /\ pc = "compress"
    /\ LET call == self_analyze_image(compressor, image)
       IN  /\ analysis' = Some(call[1])
           /\ compressor' = call[2]
    /\ algorithm' = Resolve(options.algorithm, analysis'[1])
    /\ pc' = Dispatch(algorithm')
    /\ UNCHANGED <<image, options, monotone, quality, low, high, best_result,
                   filter, encoded, result, seed, tried, seeds, sel>>
    /\ UNCHANGED <<sample, analyses, workers, batch, simple, raw, ui>>

\* what a call leaves unchanged once it is inside an adapter
Frame ==
    /\ UNCHANGED <<image, options, monotone, analysis, algorithm, seeds, sel>>
    /\ UNCHANGED others

Return(r) == result' = r /\ pc' = "done"

(***************************************************************************)
(* JPEG adapters and their target-size searches                            *)
(***************************************************************************)
\* the bracket every integer search starts from
IntLow == 10
IntHigh == 95

\* Fits with the budget off by one
Fits_off_by_one(len, target_bytes) == len <= target_bytes + 1

\* Fits with `<` for `<=`
Fits_strict(len, target_bytes) == len < target_bytes

\* `output_data.len() as u64 <= target_bytes`
Fits(len, target_bytes) == len <= target_bytes

\* `(low + high) / 2` on u8
Midpoint(lo, hi) == U8(lo + hi) \div 2

\* StartSearch with `let mut low = 0`
StartSearch_from_zero(name, lo, hi, bracket) ==
    /\ pc' = name
    /\ low' = 0
    /\ high' = hi
    /\ best_result' = EmptyVec
    /\ seed' = Some(bracket)
    /\ tried' = <<>>
    /\ UNCHANGED <<result, filter>>

\* entering a search: let mut low, high, best_result; `bracket` is the
\* starting bracket as qualities in 1/QScale
StartSearch(name, lo, hi, bracket) ==
    /\ pc' = name
    /\ low' = lo
    /\ high' = hi
    /\ best_result' = EmptyVec
    /\ seed' = Some(bracket)
    /\ tried' = <<>>
    /\ UNCHANGED <<result, filter>>

compress_standard_jpeg ==
    /\ pc = "compress_standard_jpeg"
    /\ quality' = unwrap_or(options.quality, 85)
    /\ Frame
    /\ IF options.target_size # None
       THEN /\ StartSearch("jpeg_target_size", IntLow, IntHigh, <<U8ToF32(IntLow), U8ToF32(IntHigh)>>)
            /\ UNCHANGED encoded
       ELSE \E out \in {EncodeError} \cup EncodeLens(U8ToF32(quality')) :
            /\ IF out = EncodeError
               THEN /\ Return(Err("EncodeError"))
                    /\ UNCHANGED encoded
               ELSE LET result_data == Buf("jpeg", Some(U8ToF32(quality')), out)
                    IN  /\ Return(Ok(result_data, "Jpeg", "StandardJpeg", Some(quality'),
                                     calculate_ratio(image, result_data)))
                        /\ encoded' = Record(U8ToF32(quality'), out)
            /\ UNCHANGED <<low, high, best_result, filter, seed, tried>>

\* IntSearchStep that keeps the first fit: best_result is assigned only
\* while it is empty
IntSearchStep_first_fit(enc) ==
    /\ low <= high
    /\ LET q == Midpoint(low, high)
       IN  \E out \in {EncodeError} \cup EncodeLens(U8ToF32(q)) :
           /\ tried' = Append(tried, [q |-> q, len |-> out])
           /\ IF out = EncodeError
              THEN /\ Return(Err("EncodeError"))
                   /\ UNCHANGED <<low, high, best_result, encoded>>
              ELSE /\ encoded' = Record(U8ToF32(q), out)
                   /\ IF Fits(out, options.target_size[1])
                      THEN /\ best_result' = IF is_empty(best_result)
                                             THEN Buf(enc, Some(U8ToF32(q)), out)
                                             ELSE best_result
                           /\ low' = U8(q + 1)
                           /\ high' = high
                      ELSE /\ high' = U8(q - 1)
                           /\ low' = low
                           /\ best_result' = best_result
                   /\ UNCHANGED <<pc, result>>
    /\ UNCHANGED <<quality, filter, seed>>
    /\ Frame

\* one iteration of `while low <= high` of an integer search with encoder enc
IntSearchStep(enc) ==
    /\ low <= high
    /\ LET q == Midpoint(low, high)
       IN  \E out \in {EncodeError} \cup EncodeLens(U8ToF32(q)) :
           /\ tried' = Append(tried, [q |-> q, len |-> out])
           /\ IF out = EncodeError
              THEN /\ Return(Err("EncodeError"))
                   /\ UNCHANGED <<low, high, best_result, encoded>>
              ELSE /\ encoded' = Record(U8ToF32(q), out)
                   /\ IF Fits(out, options.target_size[1])
                      THEN /\ best_result' = Buf(enc, Some(U8ToF32(q)), out)
                           /\ low' = U8(q + 1)
                           /\ high' = high
                      ELSE /\ high' = U8(q - 1)
                           /\ low' = low
                           /\ best_result' = best_result
                   /\ UNCHANGED <<pc, result>>
    /\ UNCHANGED <<quality, filter, seed>>
    /\ Frame

jpeg_target_size_step ==
    /\ pc = "jpeg_target_size"
    /\ IntSearchStep("jpeg")

\* the loop is over: jpeg_target_size returns Ok(best_result) and
\* compress_standard_jpeg wraps it
jpeg_target_size_return ==
    /\ pc = "jpeg_target_size"
    /\ ~(low <= high)
    /\ Return(Ok(best_result, "Jpeg", "StandardJpeg", Some(quality),
                 calculate_ratio(image, best_result)))
    /\ UNCHANGED <<quality, low, high, best_result, filter, encoded, seed, tried>>
    /\ Frame

compress_mozjpeg ==
    /\ pc = "compress_mozjpeg"
    /\ quality' = unwrap_or(options.quality, 85)
    /\ Frame
    /\ \E out \in {EncodeError} \cup EncodeLens(U8ToF32(quality')) :
       IF out = EncodeError
       THEN /\ Return(Err("EncodeError"))
            /\ UNCHANGED <<low, high, best_result, filter, encoded, seed, tried>>
       ELSE /\ encoded' = Record(U8ToF32(quality'), out)
            /\ IF options.target_size # None
               THEN StartSearch("mozjpeg_target_size", IntLow, IntHigh, <<U8ToF32(IntLow), U8ToF32(IntHigh)>>)
               ELSE LET output_data == Buf("mozjpeg", Some(U8ToF32(quality')), out)
                    IN  /\ Return(Ok(output_data, "Jpeg", "MozJpeg", Some(quality'),
                                     calculate_ratio(image, output_data)))
                        /\ UNCHANGED <<low, high, best_result, filter, seed, tried>>

mozjpeg_target_size_step ==
    /\ pc = "mozjpeg_target_size"
    /\ IntSearchStep("mozjpeg")

mozjpeg_target_size_return ==
    /\ pc = "mozjpeg_target_size"
    /\ ~(low <= high)
    /\ IF is_empty(best_result)
       THEN Return(Err("Could not achieve target file size with MozJPEG"))
       ELSE Return(Ok(best_result, "Jpeg", "MozJpeg", Some(quality),
                      calculate_ratio(image, best_result)))
    /\ UNCHANGED <<quality, low, high, best_result, filter, encoded, seed, tried>>
    /\ Frame

(***************************************************************************)
(* WebP adapters and the floating-point target-size search                 *)
(***************************************************************************)
\* the bracket of the WebP search: 10.0f32 and 95.0f32
FloatLow == 10 * QScale
FloatHigh == 95 * QScale

compress_webp_lossy ==
    /\ pc = "compress_webp_lossy"
    /\ quality' = U8ToF32(unwrap_or(options.quality, 85))
    /\ Frame
    /\ \E out \in EncodeLens(quality') :
       /\ encoded' = Record(quality', out)
       /\ IF options.target_size # None
          THEN StartSearch("webp_target_size", FloatLow, FloatHigh, <<FloatLow, FloatHigh>>)
          ELSE LET data == Buf("webp", Some(quality'), out)
               IN  /\ Return(Ok(data, "WebP", "WebPLossy", Some(F32ToU8(quality')),
                                calculate_ratio(image, data)))
                   /\ UNCHANGED <<low, high, best_result, filter, seed, tried>>

\* one iteration of `while high - low > 1.0`
webp_target_size_step ==
    /\ pc = "webp_target_size"
    /\ high - low > QScale
    /\ LET q == (low + high) \div 2
       IN  \E out \in EncodeLens(q) :
           /\ encoded' = Record(q, out)
           /\ tried' = Append(tried, [q |-> q, len |-> out])
           /\ IF Fits(out, options.target_size[1])
              THEN /\ best_result' = Buf("webp", Some(q), out)
                   /\ low' = q
                   /\ high' = high
              ELSE /\ high' = q
                   /\ low' = low
                   /\ best_result' = best_result
    /\ UNCHANGED <<pc, result, quality, filter, seed>>
    /\ Frame

webp_target_size_return ==
    /\ pc = "webp_target_size"
    /\ ~(high - low > QScale)
    /\ IF is_empty(best_result)
       THEN Return(Err("Could not achieve target file size with WebP"))
       ELSE Return(Ok(best_result, "WebP", "WebPLossy", Some(F32ToU8(quality)),
                      calculate_ratio(image, best_result)))
    /\ UNCHANGED <<quality, low, high, best_result, filter, encoded, seed, tried>>
    /\ Frame

compress_webp_lossless ==
    /\ pc = "compress_webp_lossless"
    /\ \E out \in 1..MaxLen :
       LET data == Buf("webp_lossless", None, out)
       IN  Return(Ok(data, "WebP", "WebPLossless", None, calculate_ratio(image, data)))
    /\ UNCHANGED <<quality, low, high, best_result, filter, encoded, seed, tried>>
    /\ Frame

(***************************************************************************)
(* PNG adapters                                                            *)
(***************************************************************************)
compress_standard_png ==
    /\ pc = "compress_standard_png"
    /\ \E out \in {EncodeError} \cup (1..MaxLen) :
       IF out = EncodeError
       THEN Return(Err("EncodeError"))
       ELSE LET result_data == Buf("png", None, out)
            IN  Return(Ok(result_data, "Png", "StandardPng", None,
                          calculate_ratio(image, result_data)))
    /\ UNCHANGED <<quality, low, high, best_result, filter, encoded, seed, tried>>
    /\ Frame

\* the filters tried, in order
Filters == <<"NoFilter", "Sub", "Up", "Avg", "Paeth", "Adaptive">>

\* image.write_to(.., Png)?, then best_result = png_data.clone()
compress_optipng ==
    /\ pc = "compress_optipng"
    /\ \E out \in {EncodeError} \cup (1..MaxLen) :
       IF out = EncodeError
       THEN /\ Return(Err("EncodeError"))
            /\ UNCHANGED <<best_result, filter, tried>>
       ELSE /\ best_result' = Buf("png", None, out)
            /\ tried' = <<[q |-> "png", len |-> out]>>
            /\ filter' = 1
            /\ pc' = "optipng_filters"
            /\ UNCHANGED result
    /\ UNCHANGED <<quality, low, high, encoded, seed>>
    /\ Frame

\* optipng_filter with `<=` for `<`: an encode as small as the best replaces it
optipng_filter_keep_last ==
    /\ pc = "optipng_filters"
    /\ filter <= Len(Filters)
    /\ \E out \in {EncodeError} \cup (1..MaxLen) :
       /\ best_result' = IF out # EncodeError /\ out <= best_result.len
                         THEN Buf(Filters[filter], None, out)
                         ELSE best_result
       /\ tried' = Append(tried, [q |-> Filters[filter], len |-> out])
    /\ filter' = filter + 1
    /\ UNCHANGED <<pc, result, quality, low, high, encoded, seed>>
    /\ Frame

\* one iteration of `for filter in filters`: a failed encode is skipped, a
\* strictly smaller one replaces best_result
optipng_filter ==
    /\ pc = "optipng_filters"
    /\ filter <= Len(Filters)
    /\ \E out \in {EncodeError} \cup (1..MaxLen) :
       /\ best_result' = IF out # EncodeError /\ out < best_result.len
                         THEN Buf(Filters[filter], None, out)
                         ELSE best_result
       /\ tried' = Append(tried, [q |-> Filters[filter], len |-> out])
    /\ filter' = filter + 1
    /\ UNCHANGED <<pc, result, quality, low, high, encoded, seed>>
    /\ Frame

optipng_return ==
    /\ pc = "optipng_filters"
    /\ filter > Len(Filters)
    /\ Return(Ok(best_result, "Png", "OptiPng", None, calculate_ratio(image, best_result)))
    /\ UNCHANGED <<quality, low, high, best_result, filter, encoded, seed, tried>>
    /\ Frame

\* compress_oxipng(img, options): the PNG encode, then oxipng's optimizer
OxiPngOutcome(img, out) ==
    IF out = EncodeError
    THEN Err("EncodeError")
    ELSE LET optimized_data == Buf("oxipng", None, out)
         IN  Ok(optimized_data, "Png", "OxiPng", None, calculate_ratio(img, optimized_data))

compress_oxipng ==
    /\ pc = "compress_oxipng"
    /\ \E out \in {EncodeError} \cup (1..MaxLen) : Return(OxiPngOutcome(image, out))
    /\ UNCHANGED <<quality, low, high, best_result, filter, encoded, seed, tried>>
    /\ Frame

\* compress_oxipng(&quantized, options).map(|r| { r.algorithm_used = PngQuant; r })
compress_pngquant ==
    /\ pc = "compress_pngquant"
    /\ \E out \in {EncodeError} \cup (1..MaxLen) :
       LET r == OxiPngOutcome(quantize_image(image), out)
       IN  Return(IF IsOk(r) THEN Some([r[1] EXCEPT !.algorithm_used = "PngQuant"]) ELSE r)
    /\ UNCHANGED <<quality, low, high, best_result, filter, encoded, seed, tried>>
    /\ Frame

(***************************************************************************)
(* AVIF adapter                                                            *)
(***************************************************************************)
\* AvifEncoder::new().encode_rgba(..)?: no quality is handed to the encoder;
\* both arms of `if let Some(target_size)` yield `data`
compress_avif ==
    /\ pc = "compress_avif"
    /\ quality' = unwrap_or(options.quality, 80)
    /\ \E out \in {EncodeError} \cup (1..MaxLen) :
       IF out = EncodeError
       THEN Return(Err("EncodeError"))
       ELSE LET final_data == Buf("avif", None, out)
            IN  Return(Ok(final_data, "Avif", "Avif", Some(avif_final_quality(quality')),
                          calculate_ratio(image, final_data)))
    /\ UNCHANGED <<low, high, best_result, filter, encoded, seed, tried>>
    /\ Frame

(***************************************************************************)
(* One call of compress                                                    *)
(***************************************************************************)
Next ==
    \/ compress
    \/ compress_standard_jpeg
    \/ jpeg_target_size_step
    \/ jpeg_target_size_return
    \/ compress_mozjpeg
    \/ mozjpeg_target_size_step
    \/ mozjpeg_target_size_return
    \/ compress_standard_png
    \/ compress_optipng
    \/ optipng_filter
    \/ optipng_return
    \/ compress_oxipng
    \/ compress_pngquant
    \/ compress_webp_lossy
    \/ webp_target_size_step
    \/ webp_target_size_return
    \/ compress_webp_lossless
    \/ compress_avif

Spec == Init /\ [][Next]_vars

(***************************************************************************)
(* The selector on its own: every analysis record, selected twice          *)
(***************************************************************************)
AnalysisRecords ==
    [has_transparency : BOOLEAN, color_count : 0..MaxColorCount,
     has_gradients : BOOLEAN, is_photograph : BOOLEAN]

InitSel ==
    /\ image \in {Img("Rgba8", 1, 1, 1, 1, 0, 0, FALSE)}
    /\ options \in {o \in OptionsSet :
                       o.algorithm = "Auto" /\ o.quality = None /\ o.target_size = None}
    /\ monotone = TRUE
    /\ seeds = {}
    /\ analysis \in {Some(a) : a \in AnalysisRecords}
    /\ pc = "select"
    /\ algorithm = ""
    /\ quality = 0
    /\ low = 0
    /\ high = 0
    /\ best_result = EmptyVec
    /\ filter = 0
    /\ encoded = {}
    /\ result = None
    /\ seed = None
    /\ tried = <<>>
    /\ sel = <<>>
    /\ Idle

\* one more call of select_best_algorithm(&analysis)
select ==
    /\ pc = "select"
    /\ Len(sel) < 2
    /\ sel' = Append(sel, select_best_algorithm(analysis[1]))
    /\ UNCHANGED <<image, options, monotone, pc, analysis, algorithm, quality,
                   low, high, best_result, filter, encoded, result, seed, tried, seeds>>
    /\ UNCHANGED others

NextSel == select

SpecSel == InitSel /\ [][NextSel]_vars

(***************************************************************************)
(* A sequence of calls with a quality and a target size, on the adapters   *)
(* that search                                                             *)
(***************************************************************************)
SearchOptions ==
    {o \in OptionsSet :
        /\ o.algorithm \in {"StandardJpeg", "MozJpeg", "WebPLossy"}
        /\ o.quality # None
        /\ o.target_size # None}

CallImages == {Img("Rgb8", 50, 50, 25, 50, 200, 0, FALSE)}

InitCalls ==
    /\ image \in CallImages
    /\ options \in SearchOptions
    /\ monotone \in BOOLEAN
    /\ seeds = {}
    /\ Fresh
    /\ Idle

\* the call has returned; its caller makes the next call
NextCall ==
    /\ pc = "done"
    /\ seeds' = IF seed = None THEN seeds
                ELSE seeds \cup {[quality |-> options.quality, bracket |-> seed[1]]}
    /\ image' \in CallImages
    /\ options' \in SearchOptions
    /\ monotone' \in BOOLEAN
    /\ pc' = "compress"
    /\ analysis' = None
    /\ algorithm' = ""
    /\ quality' = 0
    /\ low' = 0
    /\ high' = 0
    /\ best_result' = EmptyVec
    /\ filter' = 0
    /\ encoded' = {}
    /\ result' = None
    /\ seed' = None
    /\ tried' = <<>>
    /\ sel' = <<>>
    /\ UNCHANGED others

NextCalls ==
    \/ compress
    \/ compress_standard_jpeg
    \/ jpeg_target_size_step
    \/ jpeg_target_size_return
    \/ compress_mozjpeg
    \/ mozjpeg_target_size_step
    \/ mozjpeg_target_size_return
    \/ compress_webp_lossy
    \/ webp_target_size_step
    \/ webp_target_size_return
    \/ NextCall

SpecCalls == InitCalls /\ [][NextCalls]_vars

(***************************************************************************)
(* count_unique_colors on its own: one call on an image with a budget      *)
(***************************************************************************)
\* widths and heights of the sampled images range over 1..MaxDim
MaxDim == 5
\* sample budgets range over 1..MaxSample, and the analyzer's own 10000
MaxSample == 6

\* CompressionOptions::default()
DefaultOptions ==
    [algorithm |-> "Auto", quality |-> None, target_size |-> None,
     preserve_metadata |-> FALSE, optimize_for_web |-> TRUE]

\* no call of compress is made
NoCall ==
    /\ options = DefaultOptions
    /\ monotone = TRUE
    /\ seeds = {}
    /\ Fresh

\* the number of pixels the loop of count_unique_colors inserts: every
\* step-th pixel, up to and including the one that fills the set to
\* max_sample colours
pixels_inspected(img, max_sample) ==
    LET n       == NumPixels(img)
        step    == Max2(n \div max_sample, 1)
        visited == { j \in 0..(n - 1) : j % step = 0 }
        rgb(i)  == <<PixelAt(img, i)[1], PixelAt(img, i)[2], PixelAt(img, i)[3]>>
        seen(k) == { rgb(i) : i \in { j \in visited : j <= k } }
    IN  IF Cardinality({ rgb(i) : i \in visited }) < max_sample
        THEN Cardinality(visited)
        ELSE Cardinality({ k \in visited : Cardinality(seen(k)) < max_sample }) + 1

SampleImages ==
    { Img("Rgb8", w, h, 1, 1, sx, 0, FALSE) :
         w \in 1..MaxDim, h \in 1..MaxDim, sx \in {0, 1} }
    \cup { Img("Rgb8", 101, 100, 1, 1, 200, 0, FALSE) }   \* 10100 pixels, 32 colours

SampleBudgets == (1..MaxSample) \cup {10000}

InitCount ==
    /\ image \in SampleImages
    /\ sample \in { Some([max_sample |-> b, inspected |-> 0, returned |-> None]) :
                       b \in SampleBudgets }
    /\ analyses = <<>>
    /\ compressor = UnitStruct
    /\ workers = <<>>
    /\ batch = None
    /\ simple = None
    /\ raw = None
    /\ ui = None
    /\ NoCall

\* self.count_unique_colors(&rgba, max_sample)
count_colors ==
    /\ sample # None
    /\ sample[1].returned = None
    /\ sample' = Some([sample[1] EXCEPT
                          !.inspected = pixels_inspected(image, sample[1].max_sample),
                          !.returned = Some(count_unique_colors(image, sample[1].max_sample))])
    /\ UNCHANGED <<image, options, monotone, pc, analysis, algorithm, quality, low,
                   high, best_result, filter, encoded, result, seed, tried, seeds, sel,
                   analyses, compressor, workers, batch, simple, raw, ui>>

NextCount == count_colors

SpecCount == InitCount /\ [][NextCount]_vars

(***************************************************************************)
(* analyze_image on its own: the same image analysed twice                 *)
(***************************************************************************)
\* the (R, G, B) triples of image.pixels()
Colors(img) ==
    { <<PixelAt(img, i)[1], PixelAt(img, i)[2], PixelAt(img, i)[3]>> :
         i \in 0..(NumPixels(img) - 1) }

\* color_counts after the loop over image.pixels()
color_counts(img) ==
    [c \in Colors(img) |->
        Cardinality({ i \in 0..(NumPixels(img) - 1) :
            <<PixelAt(img, i)[1], PixelAt(img, i)[2], PixelAt(img, i)[3]>> = c })]

\* The first `count` entries of the map's entries sorted with a stable sort
\* by their count (order = 1) or by Reverse(count) (order = -1).  The entries come out of the HashMap in the order of its
\* hasher, a fresh RandomState for each map, so entries with equal keys can
\* end up in any order: every such outcome is in the set.
RECURSIVE sorted_take(_, _, _, _)
sorted_take(counts, remaining, order, count) ==
    IF count = 0 \/ remaining = {}
    THEN {<<>>}
    ELSE LET first == { c \in remaining :
                          \A d \in remaining : order * counts[c] <= order * counts[d] }
         IN  UNION { { <<c>> \o rest :
                          rest \in sorted_take(counts, remaining \ {c}, order, count - 1) } :
                     c \in first }

\* the images analysed
AnalyzeImages ==
    { Img("Rgb8",  6,  3, 1, 1, 64, 128, FALSE),   \* 8 colours, counts 4 4 2 2 2 2 1 1
      Img("Rgb8",  21, 21, 5, 21, 50, 0, FALSE),   \* a colour step at 5 of 25 grid points
      Img("Rgb8",  21, 21, 10, 21, 50, 0, FALSE),  \* no colour step at a grid point
      Img("Rgb8",  9,  9, 1, 1, 128, 0, FALSE),    \* a colour step at every grid point
      Img("Rgb8",  1,  1, 1, 1, 0, 0, FALSE),      \* no grid point at all
      Img("Rgba8", 8,  8, 4, 4, 100, 100, TRUE) }  \* transparent corner, four colours

\* color_counts of each analysed image
ColorCountsOf == [img \in AnalyzeImages |-> color_counts(img)]

\* get_dominant_colors without the Reverse: sorted by increasing count
get_dominant_colors_ascending(img, count) ==
    sorted_take(ColorCountsOf[img], DOMAIN ColorCountsOf[img], 1, count)

\* the Vecs get_dominant_colors(&rgba, count) can return: sorted by
\* Reverse(count), then take(count)
get_dominant_colors(img, count) ==
    sorted_take(ColorCountsOf[img], DOMAIN ColorCountsOf[img], -1, count)

InitAnalyze ==
    /\ image \in AnalyzeImages
    /\ sample = None
    /\ analyses = <<>>
    /\ compressor = UnitStruct
    /\ workers = <<>>
    /\ batch = None
    /\ simple = None
    /\ raw = None
    /\ ui = None
    /\ NoCall

\* one more call of analyze_image(image); average_complexity, an f32 sum
\* taken in the fixed order of the grid, is left out of the record
analyze ==
    /\ Len(analyses) < 2
    /\ \E dominant_colors \in get_dominant_colors(image, 5) :
          analyses' = Append(analyses,
                             [dominant_colors |-> dominant_colors] @@ analyze_image(image))
    /\ UNCHANGED <<image, options, monotone, pc, analysis, algorithm, quality, low,
                   high, best_result, filter, encoded, result, seed, tried, seeds, sel,
                   sample, compressor, workers, batch, simple, raw, ui>>

NextAnalyze == analyze

SpecAnalyze == InitAnalyze /\ [][NextAnalyze]_vars

(***************************************************************************)
(* Several workers calling compress on one shared SmartCompressor.  The    *)
(* variables of a call belong to the worker that is running; `switch`      *)
(* suspends it and resumes another worker, between any two steps.          *)
(***************************************************************************)
NumWorkers == 2

\* the variables of one call
Context ==
    [image |-> image, options |-> options, monotone |-> monotone, pc |-> pc,
     analysis |-> analysis, algorithm |-> algorithm, quality |-> quality,
     low |-> low, high |-> high, best_result |-> best_result, filter |-> filter,
     encoded |-> encoded, result |-> result, seed |-> seed, tried |-> tried]

WorkerImages ==
    { Img("Rgb8",  17, 16, 1, 1, 1, 1, FALSE),     \* opaque, 272 colours, smooth
      Img("Rgba8", 8,  8, 4, 4, 100, 100, TRUE) }  \* transparent corner, four colours

WorkerOptions ==
    { o \in OptionsSet :
        /\ o.algorithm \in {"Auto", "Simple", "PngQuant", "Avif"}
        /\ o.quality = None
        /\ o.target_size = None }

\* a worker about to call compress(image, options)
StartContexts ==
    { [image |-> img, options |-> o, monotone |-> TRUE, pc |-> "compress",
       analysis |-> None, algorithm |-> "", quality |-> 0, low |-> 0, high |-> 0,
       best_result |-> EmptyVec, filter |-> 0, encoded |-> {}, result |-> None,
       seed |-> None, tried |-> <<>>] : img \in WorkerImages, o \in WorkerOptions }

InitWorkers ==
    /\ workers \in { [running |-> 1, ctx |-> c] : c \in [1..NumWorkers -> StartContexts] }
    /\ image = workers.ctx[1].image
    /\ options = workers.ctx[1].options
    /\ monotone = TRUE
    /\ Fresh
    /\ seeds = {}
    /\ sample = None
    /\ analyses = <<>>
    /\ compressor = UnitStruct
    /\ batch = None
    /\ simple = None
    /\ raw = None
    /\ ui = None

\* the running worker is suspended and worker w runs
switch(w) ==
    /\ w # workers.running
    /\ workers' = [running |-> w,
                   ctx |-> [workers.ctx EXCEPT ![workers.running] = Context]]
    /\ image' = workers.ctx[w].image
    /\ options' = workers.ctx[w].options
    /\ monotone' = workers.ctx[w].monotone
    /\ pc' = workers.ctx[w].pc
    /\ analysis' = workers.ctx[w].analysis
    /\ algorithm' = workers.ctx[w].algorithm
    /\ quality' = workers.ctx[w].quality
    /\ low' = workers.ctx[w].low
    /\ high' = workers.ctx[w].high
    /\ best_result' = workers.ctx[w].best_result
    /\ filter' = workers.ctx[w].filter
    /\ encoded' = workers.ctx[w].encoded
    /\ result' = workers.ctx[w].result
    /\ seed' = workers.ctx[w].seed
    /\ tried' = workers.ctx[w].tried
    /\ UNCHANGED <<seeds, sel, sample, analyses, compressor, batch, simple, raw, ui>>

NextWorkers ==
    \/ compress
    \/ compress_standard_jpeg
    \/ compress_oxipng
    \/ compress_pngquant
    \/ compress_webp_lossy
    \/ compress_avif
    \/ \E w \in 1..NumWorkers : switch(w)

SpecWorkers == InitWorkers /\ [][NextWorkers]_vars

(***************************************************************************)
(* A batch run: process_images_advanced and simple::process_images         *)
(***************************************************************************)
\* collect_images returns at most MaxImages paths
MaxImages == 3

\* What processing one collected path runs into: nothing, an error that
\* process_single_image(_advanced) turns into a failed result (metadata,
\* image::open, compress or save, create_dir_all or write), or a panic in
\* one of the calls it makes.
Fates == {"ok", "metadata", "open", "compress", "write", "panic"}

\* the Vecs collect_images can return, each path with what awaits it
Collected ==
    UNION { [1..n -> Fates] : n \in 0..MaxImages }

InitBatch ==
    /\ batch \in { Some([kind |-> k, images |-> imgs, pc |-> "loop", next |-> 1,
                          results |-> <<>>, returned |-> None]) :
                       k \in {"advanced", "simple"}, imgs \in Collected }
    /\ image = Img("Rgba8", 1, 1, 1, 1, 0, 0, FALSE)
    /\ sample = None
    /\ analyses = <<>>
    /\ compressor = UnitStruct
    /\ workers = <<>>
    /\ simple = None
    /\ raw = None
    /\ ui = None
    /\ NoCall

\* the InternalResult of process_single_image(_advanced) on the i-th path
process_single_image(b, i) ==
    [success |-> b.images[i] = "ok",
     message |-> IF b.images[i] = "ok" THEN "Success" ELSE b.images[i]]

\* one iteration of `for image_path in images`: the result of the image is
\* pushed, unless processing it panics, which unwinds the closure
batch_iteration ==
    /\ batch # None
    /\ batch[1].pc = "loop"
    /\ batch[1].next <= Len(batch[1].images)
    /\ LET b == batch[1]
           i == b.next
       IN  IF b.images[i] = "panic"
           THEN batch' = Some([b EXCEPT !.pc = "panicked"])
           ELSE batch' = Some([b EXCEPT
                    !.results = Append(b.results,
                        [filename |-> i,
                         success |-> process_single_image(b, i).success,
                         message |-> process_single_image(b, i).message]),
                    !.next = i + 1])
    /\ UNCHANGED <<image, options, monotone, pc, analysis, algorithm, quality, low,
                   high, best_result, filter, encoded, result, seed, tried, seeds, sel,
                   sample, analyses, compressor, workers, simple, raw, ui>>

\* the closure returns `results` and the await yields Ok(results)
batch_return ==
    /\ batch # None
    /\ batch[1].pc = "loop"
    /\ batch[1].next > Len(batch[1].images)
    /\ batch' = Some([batch[1] EXCEPT !.pc = "returned",
                                      !.returned = Some(batch[1].results)])
    /\ UNCHANGED <<image, options, monotone, pc, analysis, algorithm, quality, low,
                   high, best_result, filter, encoded, result, seed, tried, seeds, sel,
                   sample, analyses, compressor, workers, simple, raw, ui>>

\* the await yields Err(JoinError) for the panicked task: unwrap_or_default()
batch_join_error ==
    /\ batch # None
    /\ batch[1].pc = "panicked"
    /\ batch' = Some([batch[1] EXCEPT !.pc = "returned", !.returned = Some(<<>>)])
    /\ UNCHANGED <<image, options, monotone, pc, analysis, algorithm, quality, low,
                   high, best_result, filter, encoded, result, seed, tried, seeds, sel,
                   sample, analyses, compressor, workers, simple, raw, ui>>

NextBatch ==
    \/ batch_iteration
    \/ batch_return
    \/ batch_join_error

SpecBatch == InitBatch /\ [][NextBatch]_vars

(***************************************************************************)
(* The simple path: simple::process_single_image and compress_to_size      *)
(***************************************************************************)
\* buffer lengths in bytes: on and just over each multiple of 1024
SimpleLens == { 1024 * k + d : k \in 1..MaxLen, d \in {0, 1} }

\* CompressionAlgorithm::file_extension
file_extension(a) ==
    CASE a \in {"Auto", "Simple", "StandardJpeg", "MozJpeg"}          -> "jpg"
      [] a \in {"StandardPng", "OptiPng", "OxiPng", "PngQuant"}       -> "png"
      [] a \in {"WebPLossy", "WebPLossless"}                          -> "webp"
      [] a = "Avif"                                                   -> "avif"

\* ImageFormat::from_path, as img.save(&output_path) uses it
format_from_extension(ext) ==
    CASE ext = "jpg" -> "Jpeg"
      [] ext = "png" -> "Png"
      [] OTHER       -> ""

\* DynamicImage::resize: the largest size within nwidth x nheight that keeps
\* the aspect ratio, each side rounded to nearest and at least 1
resize(dims, nwidth, nheight) ==
    LET width   == dims[1]
        height  == dims[2]
        rounded(n, d) == (2 * n + d) \div (2 * d)
    IN  IF nwidth * height <= nheight * width
        THEN <<Max2(nwidth, 1), Max2(rounded(height * nwidth, width), 1)>>
        ELSE <<Max2(rounded(width * nheight, height), 1), Max2(nheight, 1)>>

\* DynamicImage::resize_exact
resize_exact(dims, nwidth, nheight) == <<nwidth, nheight>>

\* InternalResult; original_size is left out
InternalResult(success, new_size, message) ==
    Some([success |-> success, new_size |-> new_size, message |-> message])

\* the extension of the input path, the (width, height) of the image that
\* image::open decodes from it, and the arguments of the call
InitSimple ==
    /\ simple \in { Some([pc |-> "start", input_ext |-> ext, target_size_kb |-> t,
                           dimensions |-> d, maintain_ratio |-> m, auto_scale |-> a,
                           img |-> dims, original |-> dims, quality |-> 0,
                           scale |-> <<0, 0>>, encodes |-> <<>>, written |-> None,
                           returned |-> None]) :
                      ext \in {"jpg", "png"},
                      t \in {None} \cup { Some(kb) : kb \in 1..MaxTarget },
                      d \in {None, Some(<<60, 60>>)}, m \in BOOLEAN, a \in BOOLEAN,
                      dims \in {<<100, 100>>, <<120, 90>>} }
    /\ image = Img("Rgba8", 1, 1, 1, 1, 0, 0, FALSE)
    /\ sample = None
    /\ analyses = <<>>
    /\ compressor = UnitStruct
    /\ workers = <<>>
    /\ batch = None
    /\ raw = None
    /\ ui = None
    /\ NoCall

\* `fs::write(output_path, &buffer)?; return Ok(buffer.len() as u64)` in
\* compress_to_size, and what process_single_image makes of the Result
write_and_return(s, len, written) ==
    IF written
    THEN [s EXCEPT !.pc = "done",
                   !.written = Some([ext |-> s.input_ext, format |-> "Jpeg", len |-> len]),
                   !.returned = InternalResult(TRUE, len, "")]
    ELSE [s EXCEPT !.pc = "done", !.returned = InternalResult(FALSE, 0, "write")]

\* process_single_image up to the call of compress_to_size: metadata, open,
\* the resize asked for, create_dir_all, the output path, and img.save when
\* there is no target size
simple_start ==
    /\ simple # None
    /\ simple[1].pc = "start"
    /\ LET s       == simple[1]
           resized ==
               IF s.dimensions = None THEN s.img
               ELSE IF s.maintain_ratio
                    THEN resize(s.img, s.dimensions[1][1], s.dimensions[1][2])
                    ELSE resize_exact(s.img, s.dimensions[1][1], s.dimensions[1][2])
       IN  \E fate \in {"ok", "metadata", "open", "create_dir", "save"} :
               \E len \in SimpleLens :
                   simple' = Some(
                       CASE fate = "metadata" ->
                              [s EXCEPT !.pc = "done",
                                        !.returned = InternalResult(FALSE, 0, "Failed to read")]
                         [] fate = "open" ->
                              [s EXCEPT !.pc = "done",
                                        !.returned = InternalResult(FALSE, 0, "Failed to open")]
                         [] fate = "create_dir" ->
                              [s EXCEPT !.pc = "done", !.img = resized,
                                        !.returned = InternalResult(FALSE, 0, "Failed to create dir")]
                         [] fate = "save" /\ s.target_size_kb = None ->
                              [s EXCEPT !.pc = "done", !.img = resized,
                                        !.returned = InternalResult(FALSE, 0, "Save failed")]
                         [] fate = "ok" /\ s.target_size_kb = None ->
                              [s EXCEPT !.pc = "done", !.img = resized,
                                        !.written = Some([ext |-> s.input_ext,
                                                          format |-> format_from_extension(s.input_ext),
                                                          len |-> len]),
                                        !.returned = InternalResult(TRUE, len, "")]
                         [] OTHER ->
                              [s EXCEPT !.pc = "quality", !.img = resized,
                                        !.original = resized, !.quality = 95])
    /\ UNCHANGED <<image, options, monotone, pc, analysis, algorithm, quality, low,
                   high, best_result, filter, encoded, result, seed, tried, seeds, sel,
                   sample, analyses, compressor, workers, batch, raw, ui>>

\* one iteration of `for quality in (20..=95).rev().step_by(5)`; when the
\* loop ends without a fit, `if auto_scale` opens the downscale loop with
\* scale = 0.9 (> 0.5), else the function returns Err
quality_step ==
    /\ simple # None
    /\ simple[1].pc = "quality"
    /\ LET s            == simple[1]
           target_bytes == s.target_size_kb[1] * 1024
           tried_with(out) ==
               [s EXCEPT !.encodes = Append(s.encodes,
                   [loop |-> "quality", quality |-> s.quality, img |-> s.img,
                    fits |-> out # EncodeError /\ out <= target_bytes])]
       IN  \E out \in {EncodeError} \cup SimpleLens : \E written \in BOOLEAN :
               LET tried_here == tried_with(out) IN
               simple' = Some(
                   IF out = EncodeError
                   THEN [tried_here EXCEPT !.pc = "done",
                             !.returned = InternalResult(FALSE, 0, "EncodeError")]
                   ELSE IF out <= target_bytes
                   THEN write_and_return(tried_here, out, written)
                   ELSE IF s.quality - 5 >= 20
                   THEN [tried_here EXCEPT !.quality = s.quality - 5]
                   ELSE IF s.auto_scale
                   THEN [tried_here EXCEPT !.pc = "scale", !.scale = F32Quotient(9, 10)]
                   ELSE [tried_here EXCEPT !.pc = "done",
                             !.returned = InternalResult(FALSE, 0,
                                              "Could not achieve target file size")])
    /\ UNCHANGED <<image, options, monotone, pc, analysis, algorithm, quality, low,
                   high, best_result, filter, encoded, result, seed, tried, seeds, sel,
                   sample, analyses, compressor, workers, batch, raw, ui>>

\* `scale *= 0.9` with `scale` left as it was
scale_times_scale_kept(scale) == scale

\* `scale *= 0.9`
scale_times(scale) == F32Mul(scale, F32Quotient(9, 10))

\* one iteration of `while scale > 0.5`: the image already held in img is
\* resized to (width * scale, height * scale) and encoded at quality 75
scale_step ==
    /\ simple # None
    /\ simple[1].pc = "scale"
    /\ LET s            == simple[1]
           target_bytes == s.target_size_kb[1] * 1024
           new_width    == F32ToU32(F32Times(s.scale, s.img[1]))
           new_height   == F32ToU32(F32Times(s.scale, s.img[2]))
           img          == resize(s.img, new_width, new_height)
           tried_with(out) ==
               [s EXCEPT !.img = img,
                         !.encodes = Append(s.encodes,
                             [loop |-> "scale", quality |-> 75, img |-> img,
                              fits |-> out # EncodeError /\ out <= target_bytes])]
           scale        == scale_times(s.scale)
       IN  \E out \in {EncodeError} \cup SimpleLens : \E written \in BOOLEAN :
               LET tried_here == tried_with(out) IN
               simple' = Some(
                   IF out = EncodeError
                   THEN [tried_here EXCEPT !.pc = "done",
                             !.returned = InternalResult(FALSE, 0, "EncodeError")]
                   ELSE IF out <= target_bytes
                   THEN write_and_return(tried_here, out, written)
                   ELSE IF F32GtHalf(scale)
                   THEN [tried_here EXCEPT !.scale = scale]
                   ELSE [tried_here EXCEPT !.pc = "done", !.scale = scale,
                             !.returned = InternalResult(FALSE, 0,
                                              "Could not achieve target file size")])
    /\ UNCHANGED <<image, options, monotone, pc, analysis, algorithm, quality, low,
                   high, best_result, filter, encoded, result, seed, tried, seeds, sel,
                   sample, analyses, compressor, workers, batch, raw, ui>>

NextSimple ==
    \/ simple_start
    \/ quality_step
    \/ scale_step

SpecSimple == InitSimple /\ [][NextSimple]_vars

(***************************************************************************)
(* Every target-size loop: a call of compress on any input with the simple *)
(* path idle, or a call of the simple path beside a default call of        *)
(* compress                                                                *)
(***************************************************************************)
InitLoops ==
    \/ Init
    \/ InitSimple

NextLoops ==
    \/ compress
    \/ compress_standard_jpeg
    \/ jpeg_target_size_step
    \/ jpeg_target_size_return
    \/ compress_mozjpeg
    \/ mozjpeg_target_size_step
    \/ mozjpeg_target_size_return
    \/ compress_standard_png
    \/ compress_optipng
    \/ optipng_filter
    \/ optipng_return
    \/ compress_oxipng
    \/ compress_pngquant
    \/ compress_webp_lossy
    \/ webp_target_size_step
    \/ webp_target_size_return
    \/ compress_webp_lossless
    \/ compress_avif
    \/ simple_start
    \/ quality_step
    \/ scale_step

SpecLoops == InitLoops /\ [][NextLoops]_vars

(***************************************************************************)
(* estimate_raw_size in the width of its arithmetic: a u32 is kept as its  *)
(* four bytes, least significant first                                     *)
(***************************************************************************)
\* the bytes of n < 2^31, least significant first
ToU32(n) == [i \in 1..4 |-> (n \div Pow2(8 * (i - 1))) % 256]

\* the sum of the byte products a[i] * b[j] with (i - 1) + (j - 1) = k
RECURSIVE Column(_, _, _, _)
Column(a, b, k, i) ==
    IF i > Len(a) THEN 0
    ELSE (IF k - i + 2 \in 1..Len(b) THEN a[i] * b[k - i + 2] ELSE 0)
         + Column(a, b, k, i + 1)

\* the bytes of a * b from byte k on, given the carry into byte k
RECURSIVE ProductFrom(_, _, _, _)
ProductFrom(a, b, k, carry) ==
    IF k = Len(a) + Len(b) THEN <<>>
    ELSE LET t == Column(a, b, k, 1) + carry
         IN  <<t % 256>> \o ProductFrom(a, b, k + 1, t \div 256)

\* a * b in full: Len(a) + Len(b) bytes
Product(a, b) == ProductFrom(a, b, 0, 0)

\* u32 multiplication: the low four bytes of the product
wrapping_mul(a, b) == SubSeq(Product(a, b), 1, 4)

\* whether the product does not fit a u32
mul_overflows(a, b) == \E i \in 5..8 : Product(a, b)[i] # 0

\* the layouts of DynamicImage ("Rgba16" stands for the `_` arm), widths and
\* heights on both sides of the sizes whose product passes 2^32, and the
\* build with or without overflow checks
InitRaw ==
    /\ raw \in { Some([layout |-> l, width |-> w, height |-> h,
                        overflow_checks |-> c, pc |-> "call", value |-> None]) :
                   l \in {"Luma8", "LumaA8", "Rgb8", "Rgba8", "Rgba16"},
                   w \in {1, 640, 32768, 46341, 65535, 65536},
                   h \in {1, 640, 32768, 46341, 65535, 65536},
                   c \in BOOLEAN }
    /\ image = Img("Rgba8", 1, 1, 1, 1, 0, 0, FALSE)
    /\ sample = None
    /\ analyses = <<>>
    /\ compressor = UnitStruct
    /\ workers = <<>>
    /\ batch = None
    /\ simple = None
    /\ ui = None
    /\ NoCall

\* estimate_raw_size: (width * height * bytes_per_pixel) as usize, the
\* products in u32.  An overflowing product panics in a build with overflow
\* checks and wraps in one without.
estimate_raw_size_u32 ==
    /\ raw # None
    /\ raw[1].pc = "call"
    /\ LET e == raw[1]
           bytes_per_pixel ==
               CASE e.layout = "Luma8"  -> 1
                 [] e.layout = "LumaA8" -> 2
                 [] e.layout = "Rgb8"   -> 3
                 [] e.layout = "Rgba8"  -> 4
                 [] OTHER               -> 4
           pixels   == wrapping_mul(ToU32(e.width), ToU32(e.height))
           size     == wrapping_mul(pixels, ToU32(bytes_per_pixel))
           overflow == \/ mul_overflows(ToU32(e.width), ToU32(e.height))
                       \/ mul_overflows(pixels, ToU32(bytes_per_pixel))
       IN  IF overflow /\ e.overflow_checks
           THEN raw' = Some([e EXCEPT !.pc = "panicked"])
           ELSE raw' = Some([e EXCEPT !.pc = "returned", !.value = Some(size)])
    /\ UNCHANGED <<image, options, monotone, pc, analysis, algorithm, quality, low,
                   high, best_result, filter, encoded, result, seed, tried, seeds, sel,
                   sample, analyses, compressor, workers, batch, simple, ui>>

NextRaw == estimate_raw_size_u32

SpecRaw == InitRaw /\ [][NextRaw]_vars

(***************************************************************************)
(* The selector on the records analyze_image produces                      *)
(***************************************************************************)
\* the colour counts of the analysed images: count_unique_colors(_, 10000)
\* of a non-empty image is between 1 and 10000
InitArms ==
    /\ image \in {Img("Rgba8", 1, 1, 1, 1, 0, 0, FALSE)}
    /\ options \in {o \in OptionsSet :
                       o.algorithm = "Auto" /\ o.quality = None /\ o.target_size = None}
    /\ monotone = TRUE
    /\ seeds = {}
    /\ analysis \in { Some(ImageAnalysis_of(t, c, g)) :
                         t \in BOOLEAN,
                         c \in (1..MaxColorCount) \cup {1000, 1001, 10000},
                         g \in BOOLEAN }
    /\ pc = "select"
    /\ algorithm = ""
    /\ quality = 0
    /\ low = 0
    /\ high = 0
    /\ best_result = EmptyVec
    /\ filter = 0
    /\ encoded = {}
    /\ result = None
    /\ seed = None
    /\ tried = <<>>
    /\ sel = <<>>
    /\ Idle

\* select_best_algorithm(&analysis): the arm that matches and what it gives
select_arm ==
    /\ pc = "select"
    /\ Len(sel) < 1
    /\ sel' = Append(sel, [arm |-> matching_arm(analysis[1]),
                           algorithm |-> select_best_algorithm(analysis[1])])
    /\ UNCHANGED <<image, options, monotone, pc, analysis, algorithm, quality,
                   low, high, best_result, filter, encoded, result, seed, tried, seeds>>
    /\ UNCHANGED others

NextArms == select_arm

SpecArms == InitArms /\ [][NextArms]_vars

(***************************************************************************)
(* The window: ImageResizer::update, with the commands it starts.  A       *)
(* command in flight is a file dialog or a batch task; the message it      *)
(* resolves to is handled in the step in which it resolves.                *)
(***************************************************************************)
\* commands in flight at one time
MaxInFlight == 2

\* the Vecs a batch task returns: no image found, or one result
TaskResults == {<<>>, <<[success |-> TRUE]>>}

\* format!("Processed {} images successfully!", n)
ProcessedMessage(n) == <<"Processed", n>>

in_flight(u) == u.dialogs + u.tasks["simple"] + u.tasks["advanced"]

\* ImageResizer::new: the defaults, with quality_slider = 85
InitUI ==
    /\ ui = Some([selected_path |-> None, target_size |-> "", width |-> "",
                  height |-> "", maintain_ratio |-> FALSE,
                  compression_mode |-> "Simple", compression_algorithm |-> "Simple",
                  quality_slider |-> 85, optimize_for_web |-> FALSE,
                  auto_scale |-> FALSE, is_processing |-> FALSE, progress |-> 0,
                  status_message |-> <<>>, results |-> <<>>,
                  dialogs |-> 0,
                  tasks |-> [k \in {"simple", "advanced"} |-> 0],
                  fate |-> "none"])
    /\ image = Img("Rgba8", 1, 1, 1, 1, 0, 0, FALSE)
    /\ sample = None
    /\ analyses = <<>>
    /\ compressor = UnitStruct
    /\ workers = <<>>
    /\ batch = None
    /\ simple = None
    /\ raw = None
    /\ NoCall

\* Message::SelectFile: Command::perform(select_file(), FileSelected)
update_SelectFile ==
    /\ ui # None
    /\ in_flight(ui[1]) < MaxInFlight
    /\ ui' = Some([ui[1] EXCEPT !.dialogs = @ + 1])
    /\ UNCHANGED <<image, options, monotone, pc, analysis, algorithm, quality, low,
                   high, best_result, filter, encoded, result, seed, tried, seeds, sel,
                   sample, analyses, compressor, workers, batch, simple, raw>>

\* Message::SelectFolder: Command::perform(select_folder(), FileSelected)
update_SelectFolder ==
    /\ ui # None
    /\ in_flight(ui[1]) < MaxInFlight
    /\ ui' = Some([ui[1] EXCEPT !.dialogs = @ + 1])
    /\ UNCHANGED <<image, options, monotone, pc, analysis, algorithm, quality, low,
                   high, best_result, filter, encoded, result, seed, tried, seeds, sel,
                   sample, analyses, compressor, workers, batch, simple, raw>>

\* a dialog resolves and Message::FileSelected(path) is handled
update_FileSelected ==
    /\ ui # None
    /\ ui[1].dialogs > 0
    /\ \E path \in {None, Some("images")} :
           ui' = Some([ui[1] EXCEPT !.dialogs = @ - 1, !.selected_path = path])
    /\ UNCHANGED <<image, options, monotone, pc, analysis, algorithm, quality, low,
                   high, best_result, filter, encoded, result, seed, tried, seeds, sel,
                   sample, analyses, compressor, workers, batch, simple, raw>>

\* Message::AutoScaleToggled
update_AutoScaleToggled ==
    /\ ui # None
    /\ \E value \in BOOLEAN : ui' = Some([ui[1] EXCEPT !.auto_scale = value])
    /\ UNCHANGED <<image, options, monotone, pc, analysis, algorithm, quality, low,
                   high, best_result, filter, encoded, result, seed, tried, seeds, sel,
                   sample, analyses, compressor, workers, batch, simple, raw>>

\* Message::TargetSizeChanged
update_TargetSizeChanged ==
    /\ ui # None
    /\ \E value \in {"", "1"} : ui' = Some([ui[1] EXCEPT !.target_size = value])
    /\ UNCHANGED <<image, options, monotone, pc, analysis, algorithm, quality, low,
                   high, best_result, filter, encoded, result, seed, tried, seeds, sel,
                   sample, analyses, compressor, workers, batch, simple, raw>>

\* Message::WidthChanged
update_WidthChanged ==
    /\ ui # None
    /\ \E value \in {"", "1"} : ui' = Some([ui[1] EXCEPT !.width = value])
    /\ UNCHANGED <<image, options, monotone, pc, analysis, algorithm, quality, low,
                   high, best_result, filter, encoded, result, seed, tried, seeds, sel,
                   sample, analyses, compressor, workers, batch, simple, raw>>

\* Message::HeightChanged
update_HeightChanged ==
    /\ ui # None
    /\ \E value \in {"", "1"} : ui' = Some([ui[1] EXCEPT !.height = value])
    /\ UNCHANGED <<image, options, monotone, pc, analysis, algorithm, quality, low,
                   high, best_result, filter, encoded, result, seed, tried, seeds, sel,
                   sample, analyses, compressor, workers, batch, simple, raw>>

\* Message::MaintainRatioToggled
update_MaintainRatioToggled ==
    /\ ui # None
    /\ \E value \in BOOLEAN : ui' = Some([ui[1] EXCEPT !.maintain_ratio = value])
    /\ UNCHANGED <<image, options, monotone, pc, analysis, algorithm, quality, low,
                   high, best_result, filter, encoded, result, seed, tried, seeds, sel,
                   sample, analyses, compressor, workers, batch, simple, raw>>

\* Message::ModeChanged
update_ModeChanged ==
    /\ ui # None
    /\ \E mode \in {"Simple", "Advanced"} :
           ui' = Some(IF mode = "Simple"
                      THEN [ui[1] EXCEPT !.compression_mode = mode,
                                         !.compression_algorithm = "Simple",
                                         !.quality_slider = 85]
                      ELSE [ui[1] EXCEPT !.compression_mode = mode])
    /\ UNCHANGED <<image, options, monotone, pc, analysis, algorithm, quality, low,
                   high, best_result, filter, encoded, result, seed, tried, seeds, sel,
                   sample, analyses, compressor, workers, batch, simple, raw>>

\* Message::AlgorithmSelected
update_AlgorithmSelected ==
    /\ ui # None
    /\ \E a \in {"MozJpeg", "OptiPng"} :
           ui' = Some(IF supports_quality(a)
                      THEN [ui[1] EXCEPT !.compression_algorithm = a,
                                         !.quality_slider = recommended_quality(a)]
                      ELSE [ui[1] EXCEPT !.compression_algorithm = a])
    /\ UNCHANGED <<image, options, monotone, pc, analysis, algorithm, quality, low,
                   high, best_result, filter, encoded, result, seed, tried, seeds, sel,
                   sample, analyses, compressor, workers, batch, simple, raw>>

\* Message::QualityChanged
update_QualityChanged ==
    /\ ui # None
    /\ \E value \in {10, 85} : ui' = Some([ui[1] EXCEPT !.quality_slider = value])
    /\ UNCHANGED <<image, options, monotone, pc, analysis, algorithm, quality, low,
                   high, best_result, filter, encoded, result, seed, tried, seeds, sel,
                   sample, analyses, compressor, workers, batch, simple, raw>>

\* Message::OptimizeForWebToggled
update_OptimizeForWebToggled ==
    /\ ui # None
    /\ \E value \in BOOLEAN : ui' = Some([ui[1] EXCEPT !.optimize_for_web = value])
    /\ UNCHANGED <<image, options, monotone, pc, analysis, algorithm, quality, low,
                   high, best_result, filter, encoded, result, seed, tried, seeds, sel,
                   sample, analyses, compressor, workers, batch, simple, raw>>

\* Message::Process: nothing without a selected path; with one,
\* is_processing, progress and results are reset and the batch task of the
\* algorithm's path is started
update_Process ==
    /\ ui # None
    /\ ui[1].selected_path # None => in_flight(ui[1]) < MaxInFlight
    /\ LET u    == ui[1]
           kind == IF u.compression_algorithm = "Simple" THEN "simple" ELSE "advanced"
       IN  IF u.selected_path # None
           THEN ui' = Some([u EXCEPT !.is_processing = TRUE,
                                     !.progress = 0,
                                     !.results = <<>>,
                                     !.tasks[kind] = @ + 1])
           ELSE ui' = ui
    /\ UNCHANGED <<image, options, monotone, pc, analysis, algorithm, quality, low,
                   high, best_result, filter, encoded, result, seed, tried, seeds, sel,
                   sample, analyses, compressor, workers, batch, simple, raw>>

\* ProcessingComplete that leaves is_processing as it is
update_ProcessingComplete_still_processing ==
    /\ ui # None
    /\ \E kind \in {"simple", "advanced"} :
           /\ ui[1].tasks[kind] > 0
           /\ \E fate \in {"returned", "panicked"} :
              \E returned \in TaskResults :
                  LET results == IF fate = "panicked" THEN <<>> ELSE returned
                  IN  ui' = Some([ui[1] EXCEPT
                                     !.tasks[kind] = @ - 1,
                                     !.fate = fate,
                                     !.progress = 1,
                                     !.results = results,
                                     !.status_message = ProcessedMessage(Len(results))])
    /\ UNCHANGED <<image, options, monotone, pc, analysis, algorithm, quality, low,
                   high, best_result, filter, encoded, result, seed, tried, seeds, sel,
                   sample, analyses, compressor, workers, batch, simple, raw>>

\* a batch task ends and Message::ProcessingComplete(results) is handled:
\* the closure returned its Vec, or it panicked and
\* `.await.unwrap_or_default()` gives the empty Vec
update_ProcessingComplete ==
    /\ ui # None
    /\ \E kind \in {"simple", "advanced"} :
           /\ ui[1].tasks[kind] > 0
           /\ \E fate \in {"returned", "panicked"} :
              \E returned \in TaskResults :
                  LET results == IF fate = "panicked" THEN <<>> ELSE returned
                  IN  ui' = Some([ui[1] EXCEPT
                                     !.tasks[kind] = @ - 1,
                                     !.fate = fate,
                                     !.is_processing = FALSE,
                                     !.progress = 1,
                                     !.results = results,
                                     !.status_message = ProcessedMessage(Len(results))])
    /\ UNCHANGED <<image, options, monotone, pc, analysis, algorithm, quality, low,
                   high, best_result, filter, encoded, result, seed, tried, seeds, sel,
                   sample, analyses, compressor, workers, batch, simple, raw>>

\* Message::OpenOutputFolder: opens the folder, the state stays
update_OpenOutputFolder ==
    /\ ui # None
    /\ ui' = ui
    /\ UNCHANGED <<image, options, monotone, pc, analysis, algorithm, quality, low,
                   high, best_result, filter, encoded, result, seed, tried, seeds, sel,
                   sample, analyses, compressor, workers, batch, simple, raw>>

\* Message::ClearResults
update_ClearResults ==
    /\ ui # None
    /\ ui' = Some([ui[1] EXCEPT !.results = <<>>, !.progress = 0,
                                !.status_message = <<>>])
    /\ UNCHANGED <<image, options, monotone, pc, analysis, algorithm, quality, low,
                   high, best_result, filter, encoded, result, seed, tried, seeds, sel,
                   sample, analyses, compressor, workers, batch, simple, raw>>

NextUI ==
    \/ update_SelectFile
    \/ update_SelectFolder
    \/ update_AutoScaleToggled
    \/ update_FileSelected
    \/ update_TargetSizeChanged
    \/ update_WidthChanged
    \/ update_HeightChanged
    \/ update_MaintainRatioToggled
    \/ update_ModeChanged
    \/ update_AlgorithmSelected
    \/ update_QualityChanged
    \/ update_OptimizeForWebToggled
    \/ update_Process
    \/ update_ProcessingComplete
    \/ update_OpenOutputFolder
    \/ update_ClearResults

SpecUI == InitUI /\ [][NextUI]_vars

\* a batch task runs on the blocking pool until its closure returns or
\* panics, and the runtime hands the message it resolves to to update
SpecUIFair == SpecUI /\ WF_vars(update_ProcessingComplete)

(***************************************************************************)
(* Properties                                                              *)
(***************************************************************************)
ConcreteAlgorithms == CompressionAlgorithm \ {"Auto"}
IntSearchAlgs == {"Simple", "StandardJpeg", "MozJpeg"}
QualityBearingAlgs == IntSearchAlgs \cup {"WebPLossy"}
NonQualityAlgs ==
    {"StandardPng", "OptiPng", "OxiPng", "PngQuant", "WebPLossless", "Avif"}
PngFamily == {"StandardPng", "OptiPng", "OxiPng", "PngQuant"}

\* a target-size search ran to its end and the call returned
SearchReturned ==
    /\ pc = "done"
    /\ seed # None
    /\ result[1].err # "EncodeError"

\* facts of each image, read off its pixels
AnalysisOf == [img \in Images |-> analyze_image(img)]
HasTransparentPixel ==
    [img \in Images |->
        \E x \in 0..(img.w - 1), y \in 0..(img.h - 1) : to_rgba8(img, x, y)[4] < 255]
DistinctColors ==
    [img \in Images |->
        Cardinality({ <<to_rgba8(img, p[1], p[2])[1], to_rgba8(img, p[1], p[2])[2],
                        to_rgba8(img, p[1], p[2])[3]>> :
                          p \in (0..(img.w - 1)) \X (0..(img.h - 1)) })]

\* C1: compress never dispatches on Auto: the `Auto => unreachable!()` arm
\* is never reached, and a request for Auto is resolved to one of MozJpeg,
\* OxiPng and WebPLossy.
C1_AutoNeverDispatched ==
    /\ pc # "unreachable"
    /\ pc # "compress" =>
          /\ algorithm \in ConcreteAlgorithms
          /\ options.algorithm = "Auto" => algorithm \in {"MozJpeg", "OxiPng", "WebPLossy"}

C1_Witness ==
    /\ options.algorithm = "Auto"
    /\ algorithm = "OxiPng"
    /\ pc = "compress_oxipng"

\* C2: the selector is the first-match rule list of the specification: an
\* opaque photograph gives MozJpeg; a transparent image with more than 256
\* colours gives WebPLossy; a non-photograph with at most 256 colours gives
\* OxiPng; every other record gives WebPLossy; and a second call on the same
\* record gives the same algorithm.
C2_FirstMatchWins ==
    \A i \in 1..Len(sel) :
        LET a == analysis[1]
            r1 == ~a.has_transparency /\ a.is_photograph
            r2 == a.has_transparency /\ a.color_count > 256
            r3 == ~a.is_photograph /\ a.color_count <= 256
        IN  /\ r1 => sel[i] = "MozJpeg"
            /\ (~r1 /\ r2) => sel[i] = "WebPLossy"
            /\ (~r1 /\ ~r2 /\ r3) => sel[i] = "OxiPng"
            /\ (~r1 /\ ~r2 /\ ~r3) => sel[i] = "WebPLossy"
            /\ sel[i] = sel[1]

C2_Witness ==
    /\ Len(sel) = 2
    /\ analysis[1].has_transparency
    /\ ~analysis[1].is_photograph
    /\ analysis[1].color_count = 256
    /\ sel[2] = "OxiPng"

\* C3: with Auto the algorithm dispatched, and the algorithm_used of an Ok
\* result, is the selector's choice for the analysis of the image: an image
\* with a transparent pixel and more than 256 colours gets WebPLossy, an
\* opaque image with at most 256 colours gets a PNG algorithm; without Auto
\* the caller's algorithm is the one dispatched.
C3_AutoResolution ==
    pc # "compress" =>
        /\ options.algorithm = "Auto" =>
              /\ algorithm = select_best_algorithm(AnalysisOf[image])
              /\ IsOk(result) => result[1].algorithm_used = algorithm
              /\ (HasTransparentPixel[image] /\ DistinctColors[image] > 256)
                    => algorithm = "WebPLossy"
              /\ (~HasTransparentPixel[image] /\ DistinctColors[image] <= 256)
                    => algorithm \in PngFamily
        /\ options.algorithm # "Auto" => algorithm = options.algorithm

C3_Witness ==
    /\ options.algorithm = "Auto"
    /\ HasTransparentPixel[image]
    /\ DistinctColors[image] = 300
    /\ IsOk(result)
    /\ result[1].algorithm_used = "WebPLossy"

\* C4: when no encoding made during a call with a target size fits the
\* target, compress on a quality-bearing algorithm returns an error, never
\* Ok.
C4_UnreachableIsError ==
    ( /\ pc = "done"
      /\ seed # None
      /\ algorithm \in QualityBearingAlgs
      /\ \A e \in encoded : e.len > options.target_size[1] )
    => IsErr(result)

\* C5: with a target size, an algorithm without a quality search never
\* returns Ok with data longer than the target.
C5_SingleEncodeChecked ==
    ( /\ pc = "done"
      /\ algorithm \in NonQualityAlgs
      /\ options.target_size # None
      /\ IsOk(result) )
    => result[1].data.len <= options.target_size[1]

\* C6: with a target size, the data of an Ok result of the JPEG, MozJPEG and
\* lossy WebP adapters is never longer than the target, whatever lengths the
\* encoder produces.
C6_OkWithinTarget ==
    ( /\ pc = "done"
      /\ algorithm \in QualityBearingAlgs
      /\ options.target_size # None
      /\ IsOk(result) )
    => result[1].data.len <= options.target_size[1]

C6_Witness ==
    /\ pc = "done"
    /\ algorithm = "WebPLossy"
    /\ ~monotone
    /\ IsOk(result)
    /\ options.target_size # None
    /\ result[1].data.len >= 1
    /\ \E e \in encoded :
          /\ e.len > options.target_size[1]
          /\ e.q < result[1].data.q[1]
          /\ e.q > FloatLow

\* C7: with an encoder whose length never decreases as the quality grows, an
\* integer search returns the encoding of the highest quality of 10..95 that
\* fits: the returned quality fits, no encoding made at a higher quality
\* fits, and it is 95 or the quality just above it was encoded and did not
\* fit (so that nothing above fits); and when the search returns nothing,
\* quality 10 was encoded and did not fit (so that nothing fits).
C7_HighestFittingQuality ==
    ( /\ SearchReturned
      /\ monotone
      /\ algorithm \in IntSearchAlgs )
    => LET t == options.target_size[1]
           inRange == {e \in encoded : e.q >= 10 * QScale /\ e.q <= 95 * QScale}
           fitting == {e \in inRange : e.len <= t}
           data == result[1].data
       IN  IF IsOk(result) /\ data.len > 0
           THEN /\ data.q # None
                /\ [q |-> data.q[1], len |-> data.len] \in fitting
                /\ \A e \in fitting : e.q <= data.q[1]
                /\ \/ data.q[1] = 95 * QScale
                   \/ \E e \in encoded : e.q = data.q[1] + QScale /\ e.len > t
           ELSE /\ fitting = {}
                /\ \E e \in encoded : e.q = 10 * QScale /\ e.len > t

C7_Witness ==
    /\ SearchReturned
    /\ monotone
    /\ algorithm = "MozJpeg"
    /\ IsOk(result)
    /\ result[1].data.q[1] > 10 * QScale
    /\ result[1].data.q[1] < 95 * QScale
    /\ \E e \in encoded : e.q = result[1].data.q[1] + QScale
                            /\ e.len > options.target_size[1]

\* C8: with an encoder whose length never decreases as the quality grows, the
\* WebP search succeeds exactly when some quality of [10, 95] fits the
\* target, as the integer search does: it fails only when no encoding at a
\* quality of [10, 95] fits.
C8_FloatSearchEquivalent ==
    ( /\ SearchReturned
      /\ monotone
      /\ algorithm = "WebPLossy" )
    => ( IsOk(result) <=>
            \E e \in encoded : /\ e.q >= 10 * QScale
                               /\ e.q <= 95 * QScale
                               /\ e.len <= options.target_size[1] )

\* C9: the supplied quality seeds the search: once a search has been started
\* for every quality a caller supplies, the starting brackets are not all
\* the same.
C9_QualitySeedsSearch ==
    (\A q \in QualityChoices : \E s \in seeds : s.quality = Some(q))
    => \E s1 \in seeds, s2 \in seeds : s1.bracket # s2.bracket

\* C10: the final_quality of an Ok result is the quality given to the encode
\* call that produced the data, and None when that call takes no quality.
\* (The AVIF encoder is given no quality: a final_quality reported when the
\* caller supplied none is taken to be the encoder's own default.)
C10_FinalQualityIsUsed ==
    (pc = "done" /\ IsOk(result))
    => LET r == result[1]
       IN  IF r.data.q # None
           THEN r.final_quality = Some(F32ToU8(r.data.q[1]))
           ELSE \/ r.final_quality = None
                \/ r.data.enc = "avif" /\ options.quality = None

\* C11: without a supplied quality and without a target size, an adapter of
\* an algorithm that supports a quality encodes at the recommended quality
\* of the resolved algorithm.  (The AVIF encoder is given no quality: the
\* quality the adapter reports is taken for the one it used.)
C11_DefaultIsRecommended ==
    ( /\ pc = "done"
      /\ IsOk(result)
      /\ options.quality = None
      /\ options.target_size = None
      /\ supports_quality(algorithm) )
    => LET r == result[1]
       IN  IF r.data.q # None
           THEN r.data.q[1] = U8ToF32(recommended_quality(algorithm))
           ELSE r.final_quality = Some(recommended_quality(algorithm))

\* bytes per pixel of a layout: 1 gray, 2 gray with alpha, 3 RGB, 4 otherwise
BytesPerPixel(layout) ==
    IF layout = "Luma8" THEN 1
    ELSE IF layout = "LumaA8" THEN 2
    ELSE IF layout = "Rgb8" THEN 3
    ELSE 4

\* C12: the compression_ratio of an Ok result is the length of its data
\* divided by width * height * bytes-per-pixel of the image handed to
\* compress.
C12_RatioOfInputImage ==
    (pc = "done" /\ IsOk(result))
    => LET r == result[1]
       IN  r.compression_ratio[1] * (image.w * image.h * BytesPerPixel(image.layout))
              = r.data.len * r.compression_ratio[2]

\* C13: without Auto, the algorithm_used of an Ok result is the algorithm
\* the caller asked for.
C13_ReportsRequested ==
    (pc = "done" /\ IsOk(result) /\ options.algorithm # "Auto")
    => result[1].algorithm_used = options.algorithm

\* the distinct (R, G, B) triples of the whole image
TrueDistinct(img) ==
    Cardinality({ <<to_rgba8(img, p[1], p[2])[1], to_rgba8(img, p[1], p[2])[2],
                    to_rgba8(img, p[1], p[2])[3]>> :
                      p \in (0..(img.w - 1)) \X (0..(img.h - 1)) })

\* C14: count_unique_colors inspects at most max_sample pixels, whatever the
\* size of the image.
C14_InspectsAtMostBudget ==
    (sample # None /\ sample[1].returned # None)
    => sample[1].inspected <= sample[1].max_sample

\* C15: the colour count returned is at most the sample budget and at most
\* the number of distinct colours of the image, and it is that number when
\* the image has no more pixels than the budget.
C15_ColorCountBounds ==
    (sample # None /\ sample[1].returned # None)
    => LET c == sample[1].returned[1]
       IN  /\ c <= sample[1].max_sample
           /\ c <= TrueDistinct(image)
           /\ NumPixels(image) <= sample[1].max_sample => c = TrueDistinct(image)

C15_Witness ==
    /\ sample # None
    /\ sample[1].returned = Some(sample[1].max_sample)
    /\ NumPixels(image) > sample[1].max_sample
    /\ TrueDistinct(image) > sample[1].max_sample

\* the (R, G, B) triple at a coordinate
RgbAt(img, p) ==
    <<to_rgba8(img, p[1], p[2])[1], to_rgba8(img, p[1], p[2])[2], to_rgba8(img, p[1], p[2])[3]>>

Coordinates(img) == (0..(img.w - 1)) \X (0..(img.h - 1))

\* for each analysed image, the number of its pixels that have each of its
\* colours, counted over all coordinates
FrequencyOf ==
    [img \in AnalyzeImages |->
        [c \in { RgbAt(img, p) : p \in Coordinates(img) } |->
            Cardinality({ p \in Coordinates(img) : RgbAt(img, p) = c })]]

\* C16: get_dominant_colors returns at most 5 distinct colours of the image
\* in order of non-increasing frequency over the whole image, and no colour
\* left out is more frequent than a colour returned.
C16_DominantByFrequency ==
    \A i \in 1..Len(analyses) :
        LET d == analyses[i].dominant_colors
            f == FrequencyOf[image]
        IN  /\ Len(d) <= 5
            /\ \A j \in 1..Len(d) : d[j] \in DOMAIN f
            /\ \A j \in 1..Len(d), k \in 1..Len(d) :
                  /\ j # k => d[j] # d[k]
                  /\ j < k => f[d[j]] >= f[d[k]]
            /\ \A c \in DOMAIN f :
                  (\A j \in 1..Len(d) : d[j] # c)
                  => \A j \in 1..Len(d) : f[c] <= f[d[j]]

C16_Witness ==
    /\ Len(analyses) >= 1
    /\ Cardinality(DOMAIN FrequencyOf[image]) > 5
    /\ LET d == analyses[1].dominant_colors
           f == FrequencyOf[image]
       IN  /\ Len(d) = 5
           /\ f[d[1]] > f[d[5]]
           /\ \E c \in DOMAIN f : (\A j \in 1..5 : d[j] # c) /\ f[c] = f[d[5]]

\* C17: two calls of analyze_image on the same image return the same
\* record, the order of dominant_colors included.
C17_AnalysisDeterministic ==
    Len(analyses) = 2 => analyses[1] = analyses[2]

\* the points of the coarse grid that have a right and a below neighbour
GridPoints(img) ==
    { p \in Coordinates(img) :
        p[1] % 4 = 0 /\ p[2] % 4 = 0 /\ p[1] + 1 < img.w /\ p[2] + 1 < img.h }

\* the grid points whose right or below neighbour is further than 10.0
GradientPoints(img) ==
    { p \in GridPoints(img) :
        \/ color_distance_sq(RgbAt(img, p), RgbAt(img, <<p[1] + 1, p[2]>>)) > 100
        \/ color_distance_sq(RgbAt(img, p), RgbAt(img, <<p[1], p[2] + 1>>)) > 100 }

GridOf ==
    [img \in AnalyzeImages |->
        [points |-> Cardinality(GridPoints(img)),
         gradient |-> Cardinality(GradientPoints(img))]]

\* C18: has_gradients is true exactly when the gradient pixels are more
\* than 10% of the grid sample points.
C18_GradientTenPercent ==
    \A i \in 1..Len(analyses) :
        analyses[i].has_gradients
            <=> (10 * GridOf[image].gradient > GridOf[image].points)

\* the call of worker w
CallOf(w) == IF w = workers.running THEN Context ELSE workers.ctx[w]

WorkerAnalysisOf == [img \in WorkerImages |-> analyze_image(img)]

\* the results compress(img, o), without a target size, returns when it is
\* the only call made on a new SmartCompressor: one encode by the encoder of
\* the resolved algorithm, of any length, or the encoder's error
AloneResults(img, o) ==
    LET alg == IF o.algorithm = "Auto"
               THEN select_best_algorithm(WorkerAnalysisOf[img])
               ELSE o.algorithm
        raw_bytes(i) == i.w * i.h * BytesPerPixel(i.layout)
        Oks(enc, q, format, used, final_quality, ratio_image) ==
            { Ok(Buf(enc, q, n), format, used, final_quality, <<n, raw_bytes(ratio_image)>>) :
                 n \in 1..MaxLen }
        failed == {Err("EncodeError")}
        jq == unwrap_or(o.quality, 85)
    IN  CASE alg \in {"Simple", "StandardJpeg"} ->
                 failed \cup Oks("jpeg", Some(jq * QScale), "Jpeg", "StandardJpeg", Some(jq), img)
          [] alg = "MozJpeg" ->
                 failed \cup Oks("mozjpeg", Some(jq * QScale), "Jpeg", "MozJpeg", Some(jq), img)
          [] alg = "WebPLossy" ->
                 Oks("webp", Some(jq * QScale), "WebP", "WebPLossy", Some(jq), img)
          [] alg = "OxiPng" ->
                 failed \cup Oks("oxipng", None, "Png", "OxiPng", None, img)
          [] alg = "PngQuant" ->
                 failed \cup Oks("oxipng", None, "Png", "PngQuant", None,
                                 [img EXCEPT !.layout = "Rgba8"])
          [] alg = "Avif" ->
                 failed \cup Oks("avif", None, "Avif", "Avif",
                                 Some(unwrap_or(o.quality, 80)), img)
          [] OTHER -> {}

\* C19: the engine holds no state across calls: the shared SmartCompressor
\* never changes, and under every interleaving each call that has returned
\* has a result it returns when run alone on its image and options.
C19_NoCrossCallState ==
    /\ compressor = UnitStruct
    /\ workers # <<>> =>
          \A w \in 1..NumWorkers :
              CallOf(w).pc = "done"
                  => CallOf(w).result \in AloneResults(CallOf(w).image, CallOf(w).options)

C19_Witness ==
    /\ workers # <<>>
    /\ \E w \in 1..NumWorkers, v \in 1..NumWorkers :
          /\ v = workers.running
          /\ w # v
          /\ CallOf(w).pc = "done"
          /\ CallOf(w).analysis # None
          /\ CallOf(v).pc = "done"
          /\ CallOf(v).image # CallOf(w).image
          /\ CallOf(v).options.algorithm = "Auto"
          /\ CallOf(w).options.algorithm = "Auto"
          /\ IsOk(CallOf(v).result)
          /\ IsOk(CallOf(w).result)
          /\ CallOf(v).result[1].algorithm_used # CallOf(w).result[1].algorithm_used

\* C20: a batch run returns exactly one ProcessResult for every collected
\* image, in collection order, and the entry of an image that failed, a
\* panic while processing it included, has success = false.
C20_OneResultPerImage ==
    (batch # None /\ batch[1].returned # None)
    => LET b == batch[1]
           r == b.returned[1]
       IN  /\ Len(r) = Len(b.images)
           /\ \A i \in 1..Len(r) :
                 /\ r[i].filename = i
                 /\ r[i].success <=> b.images[i] = "ok"

(***************************************************************************)
(* The simple path                                                         *)
(***************************************************************************)
\* the image a downscale iteration would encode if it shrank the image it
\* is given by the factor 0.9
ShrunkByDecay(dims) ==
    resize(dims, F32ToU32(F32Times(F32Quotient(9, 10), dims[1])),
                 F32ToU32(F32Times(F32Quotient(9, 10), dims[2])))

\* C21: in the downscale fallback of compress_to_size every iteration encodes
\* the previous iteration's image shrunk by the factor 0.9, and no encoded
\* image has a width or height below half of the original image's
C21_DownscaleFixedDecayAndFloor ==
    simple # None =>
        LET s == simple[1]
        IN  \A i \in 1..Len(s.encodes) :
                /\ s.encodes[i].loop = "scale" =>
                       s.encodes[i].img = ShrunkByDecay(s.encodes[i - 1].img)
                /\ 2 * s.encodes[i].img[1] >= s.original[1]
                /\ 2 * s.encodes[i].img[2] >= s.original[2]

\* C22: the simple path downscales only with auto_scale set and only after
\* the quality search has gone through the range from 95 down to 10 without
\* a fit; with auto_scale false and no fit the call returns an error and
\* writes no file
C22_DownscaleOnlyAfterRangeExhausted ==
    simple # None =>
        LET s         == simple[1]
            encodes   == { s.encodes[i] : i \in 1..Len(s.encodes) }
            qualities == { e.quality : e \in { t \in encodes : t.loop = "quality" } }
        IN  /\ (\E e \in encodes : e.loop = "scale") =>
                   /\ s.auto_scale
                   /\ \A e \in encodes : e.loop = "quality" => ~e.fits
                   /\ 95 \in qualities
                   /\ 10 \in qualities
            /\ ( /\ s.pc = "done"
                 /\ ~s.auto_scale
                 /\ encodes # {}
                 /\ \A e \in encodes : ~e.fits ) =>
                   /\ ~s.returned[1].success
                   /\ s.written = None

\* the extensions that name an encoding
CanonicalExtensions(format) ==
    CASE format = "Jpeg" -> {"jpg", "jpeg"}
      [] format = "Png"  -> {"png"}
      [] format = "WebP" -> {"webp"}
      [] format = "Avif" -> {"avif"}
      [] OTHER           -> {}

\* C23: a file the simple path writes is named with an extension of the
\* encoding of the bytes written to it
C23_ExtensionMatchesEncoding ==
    (simple # None /\ simple[1].written # None) =>
        simple[1].written[1].ext \in CanonicalExtensions(simple[1].written[1].format)

(***************************************************************************)
(* The loops of the adapters                                               *)
(***************************************************************************)
\* the positions in `tried` of the encodes that succeeded
Succeeded == { i \in 1..Len(tried) : tried[i].len # EncodeError }

\* the earliest of the smallest successful encodes in `tried`
EarliestSmallest ==
    CHOOSE i \in Succeeded :
        \A j \in Succeeded : tried[i].len < tried[j].len
                             \/ (tried[i].len = tried[j].len /\ i <= j)

OptiPngReturned ==
    /\ pc = "done"
    /\ IsOk(result)
    /\ result[1].algorithm_used = "OptiPng"
    /\ Len(tried) = 1 + Len(Filters)
    /\ tried[1].q = "png"

\* C24: compress_optipng returns the smallest of the default PNG encode and
\* the successful encodes over the six filters, the earliest of them on a tie
C24_OptiPngSmallestEarliest ==
    OptiPngReturned =>
        /\ result[1].data.len = tried[EarliestSmallest].len
        /\ result[1].data.enc = tried[EarliestSmallest].q
        /\ \A i \in Succeeded : result[1].data.len <= tried[i].len

\* a filter's encode beat the default one, a later filter tied with it, and
\* another filter's encode failed
C24_Witness ==
    /\ OptiPngReturned
    /\ result[1].data.enc = "Sub"
    /\ tried[2].len = EncodeError
    /\ tried[1].len > tried[3].len
    /\ tried[5].len = tried[3].len

InIntSearch == pc \in {"jpeg_target_size", "mozjpeg_target_size"}

\* the positions in `tried` of the encodes within the budget
Fitting ==
    { i \in 1..Len(tried) :
        tried[i].len # EncodeError /\ Fits(tried[i].len, options.target_size[1]) }

\* C25: when the loop of an integer search is over, best_result is the encode
\* of the greatest quality tried that was within the budget, whatever the
\* lengths the encoder gave; and in every iteration, each quality tried
\* after a fit is greater than the fitting quality
C25_BestIsGreatestFit ==
    InIntSearch =>
        /\ \A i \in Fitting : \A j \in (i + 1)..Len(tried) : tried[j].q > tried[i].q
        /\ (~(low <= high) /\ Fitting # {}) =>
               LET best == CHOOSE i \in Fitting : \A j \in Fitting : tried[j].q <= tried[i].q
               IN  /\ best_result.q = Some(U8ToF32(tried[best].q))
                   /\ best_result.len = tried[best].len

\* the loop is over after several fits, a later fit (at a higher quality)
\* shorter than an earlier one: the encoder is not monotone
C25_Witness ==
    /\ InIntSearch
    /\ ~(low <= high)
    /\ ~monotone
    /\ \E i, j \in Fitting : i < j /\ tried[i].len > tried[j].len

\* C26: in the integer searches every quality tried is in 10..95 and no u8
\* operation wraps: low + high <= 255, quality + 1 <= 96, quality - 1 >= 9
C26_QualitiesInRangeNoWrap ==
    InIntSearch =>
        /\ \A i \in 1..Len(tried) :
               /\ tried[i].q \in IntLow..IntHigh
               /\ tried[i].q + 1 <= 96
               /\ tried[i].q - 1 >= 9
        /\ low \in IntLow..(IntHigh + 1)
        /\ high \in (IntLow - 1)..IntHigh
        /\ low <= high =>
               /\ low + high <= 255
               /\ (low + high) \div 2 \in IntLow..IntHigh

\* both ends are reached: every encode missed down to quality 10, or every
\* encode fitted up to quality 95
C26_Witness ==
    /\ InIntSearch
    /\ Len(tried) > 0
    /\ \/ (tried[Len(tried)].q = IntLow /\ high = IntLow - 1)
       \/ (tried[Len(tried)].q = IntHigh /\ low = IntHigh + 1)

\* the encodes of one loop of the simple path, in order
EncodesOf(loop) == SelectSeq(simple[1].encodes, LAMBDA e : e.loop = loop)

\* C27: every target-size loop ends: an integer search makes at most 7
\* encodes, the WebP search exactly 7 when it runs to its end, and the simple
\* path at most 16 quality encodes (95 down to 20 in steps of 5) and at most
\* 6 downscale encodes
C27_LoopsEndWithinBounds ==
    /\ InIntSearch => Len(tried) <= 7
    /\ pc = "webp_target_size" =>
           /\ Len(tried) <= 7
           /\ ~(high - low > QScale) => Len(tried) = 7
    /\ simple # None =>
           /\ Len(EncodesOf("quality")) <= 16
           /\ \A i \in 1..Len(EncodesOf("quality")) :
                  EncodesOf("quality")[i].quality = 95 - 5 * (i - 1)
           /\ Len(EncodesOf("scale")) <= 6
           /\ simple[1].pc = "scale" => /\ Len(EncodesOf("quality")) = 16
                                        /\ F32GtHalf(simple[1].scale)

\* the simple path has returned after all 16 quality encodes and all 6
\* downscale encodes missed the budget
C27_Witness ==
    /\ simple # None
    /\ simple[1].pc = "done"
    /\ Len(EncodesOf("quality")) = 16
    /\ Len(EncodesOf("scale")) = 6
    /\ simple[1].returned[1].message = "Could not achieve target file size"

(***************************************************************************)
(* estimate_raw_size                                                       *)
(***************************************************************************)
\* width x height x bytes-per-pixel, in full
RawSizeOf(e) ==
    Product(Product(ToU32(e.width), ToU32(e.height)),
            <<BytesPerPixel(IF e.layout = "Rgba16" THEN "Rgba8" ELSE e.layout)>>)

\* C28: estimate_raw_size returns width x height x bytes-per-pixel for every
\* image: it never panics and never returns a wrapped product
C28_RawSizeExact ==
    (raw # None /\ raw[1].pc # "call") =>
        /\ raw[1].pc = "returned"
        /\ raw[1].value[1] \o <<0, 0, 0, 0, 0>> = RawSizeOf(raw[1])

(***************************************************************************)
(* The selector on analysed images                                         *)
(***************************************************************************)
\* C29: on a record analyze_image produced, the arm `(true, _, _)` (the
\* fourth) never matches: a transparent image is decided by the second arm
\* (more than 256 colours, WebPLossy) or the third (at most 256, OxiPng); and
\* the last arm matches exactly the opaque images that are no photograph and
\* have more than 256 colours
C29_TransparencyArmNeverMatches ==
    \A i \in 1..Len(sel) :
        LET a == analysis[1]
        IN  /\ sel[i].arm # 4
            /\ a.has_transparency =>
                   IF a.color_count > 256
                   THEN sel[i].arm = 2 /\ sel[i].algorithm = "WebPLossy"
                   ELSE sel[i].arm = 3 /\ sel[i].algorithm = "OxiPng"
            /\ sel[i].arm = 5 <=>
                   (~a.has_transparency /\ ~a.is_photograph /\ a.color_count > 256)

\* a transparent image with gradients and exactly 256 colours went to the
\* third arm
C29_Witness ==
    /\ Len(sel) = 1
    /\ analysis[1].has_transparency
    /\ analysis[1].has_gradients
    /\ analysis[1].color_count = 256
    /\ sel[1].arm = 3

(***************************************************************************)
(* The window                                                              *)
(***************************************************************************)
Tasks(u) == u.tasks["simple"] + u.tasks["advanced"]

\* C30: Process without a selected path changes nothing; Process with one
\* sets is_processing and empties results; ProcessingComplete resets
\* is_processing, whether the task returned or panicked; no other message
\* changes is_processing; and once is_processing is set it is eventually
\* reset
C30_ProcessingEventuallyReset ==
    /\ [][ /\ (update_Process /\ ui[1].selected_path = None) => ui' = ui
           /\ (update_Process /\ ui[1].selected_path # None) =>
                  /\ ui'[1].is_processing
                  /\ ui'[1].results = <<>>
                  /\ Tasks(ui'[1]) = Tasks(ui[1]) + 1
           /\ update_ProcessingComplete =>
                  /\ ~ui'[1].is_processing
                  /\ ui'[1].fate = "panicked" => ui'[1].results = <<>>
           /\ ui'[1].is_processing # ui[1].is_processing =>
                  (update_Process \/ update_ProcessingComplete) ]_vars
    /\ (ui[1].is_processing ~> ~ui[1].is_processing)

\* a batch task panicked: the empty list arrived and is_processing was reset
C30_Witness ==
    /\ ui # None
    /\ ui[1].fate = "panicked"
    /\ ~ui[1].is_processing
    /\ ui[1].results = <<>>
    /\ ui[1].status_message = ProcessedMessage(0)
    /\ ui[1].selected_path # None
    /\ Tasks(ui[1]) = 0

====
